---- MODULE Spec2Model ----
(***************************************************************************)
(* Verification model of the 2D rigid body engine: narrow-phase collision  *)
(* detection (GJK, EPA) and the sequential-impulse contact solver.         *)
(*                                                                         *)
(* Numbers.  The program computes in IEEE doubles.  The model computes     *)
(* exactly: points of the collision queries are integer lattice points,    *)
(* a closest point is a rational (numerator vector over one denominator),  *)
(* a unit vector is a direction together with its squared length, and the  *)
(* solver's numbers are extended rationals <<n, d>> in which d = 0 stands   *)
(* for the doubles Infinity (<<1,0>>), -Infinity (<<-1,0>>) and NaN         *)
(* (<<0,0>>).                                                               *)
(***************************************************************************)
EXTENDS Integers, Sequences, FiniteSets, TLC

\* ------------------------------------------------------------------ bounds
\* Largest |x| and |y| of the second collider's position in a query.
MaxPos == 4

\* ---------------------------------------------------------- integer helpers
Abs(x) == IF x < 0 THEN -x ELSE x

Sgn(x) == IF x < 0 THEN -1 ELSE IF x > 0 THEN 1 ELSE 0

RECURSIVE ISqrtIn(_, _, _)
ISqrtIn(m, lo, hi) ==
    IF lo >= hi THEN lo
    ELSE LET mid == (lo + hi + 1) \div 2
         IN  IF mid * mid <= m THEN ISqrtIn(m, mid, hi) ELSE ISqrtIn(m, lo, mid - 1)

\* floor(sqrt(m)) for 0 <= m < 2^31 (46340 = floor(sqrt(2^31 - 1)))
ISqrt(m) == ISqrtIn(m, 0, IF m < 46340 THEN m ELSE 46340)

\* ceil(sqrt(m)) for m >= 0
ISqrtCeil(m) == LET r == ISqrt(m) IN IF r * r = m THEN r ELSE r + 1

\* ------------------------------------------------------------- Vector2
Vec(x, y) == <<x, y>>

ZeroVec == <<0, 0>>

addV(a, b) == <<a[1] + b[1], a[2] + b[2]>>

subV(a, b) == <<a[1] - b[1], a[2] - b[2]>>

mulS(a, s) == <<a[1] * s, a[2] * s>>

dot(a, b) == a[1] * b[1] + a[2] * b[2]

cross(a, b) == a[1] * b[2] - a[2] * b[1]

inverted(a) == <<-a[1], -a[2]>>

\* squared length; getLength() is its square root
len2(a) == dot(a, a)

\* ------------------------------------------------------------- colliders
\* A collider of a query: shape tag, local vertices (polygon) or radius
\* (circle), world position, and rotation in quarter turns.
Polygon(vs, pos, rot) ==
    [shape |-> "Polygon", vertices |-> vs, radius |-> 0, position |-> pos, rotation |-> rot]

Circle(r, pos) ==
    [shape |-> "Circle", vertices |-> <<>>, radius |-> r, position |-> pos, rotation |-> 0]

\* a body that is neither a Circle nor a Polygon
Other(pos) ==
    [shape |-> "Other", vertices |-> <<>>, radius |-> 0, position |-> pos, rotation |-> 0]

\* Box(2, 2): the four corners, recentred on the centre of mass
BoxVertices == << <<-1, -1>>, <<-1, 1>>, <<1, 1>>, <<1, -1>> >>

\* a triangle whose vertex mean is the origin
TriangleVertices == << <<0, 2>>, <<-2, -1>>, <<2, -1>> >>

\* rotation of v by r quarter turns
Rotate(v, r) ==
    CASE r % 4 = 0 -> v
      [] r % 4 = 1 -> <<-v[2], v[1]>>
      [] r % 4 = 2 -> <<-v[1], -v[2]>>
      [] OTHER     -> <<v[2], -v[1]>>

\* c.localToGlobal().mulVector(v, 1): rotate, then translate
localToGlobalPoint(c, v) == addV(Rotate(v, c.rotation), c.position)

\* c.globalToLocal().mulVector(d, 0): directions are only rotated back
globalToLocalDir(c, d) == Rotate(d, 4 - (c.rotation % 4))

\* c.globalToLocal().mulVector(p, 1): translate back, then rotate back
globalToLocalPoint(c, p) == Rotate(subV(p, c.position), 4 - (c.rotation % 4))

\* ------------------------------------------------------------- support
\* the loop of support that lets a later vertex of equal value win
RECURSIVE supportLoopLast(_, _, _, _, _)
supportLoopLast(vertices, dir, i, idx, maxValue) ==
    IF i > Len(vertices) THEN idx
    ELSE LET value == dot(dir, vertices[i])
         IN  IF value >= maxValue
             THEN supportLoopLast(vertices, dir, i + 1, i, value)
             ELSE supportLoopLast(vertices, dir, i + 1, idx, maxValue)

\* the loop of support from vertex i on: the index of the farthest vertex so far
RECURSIVE supportLoop(_, _, _, _, _)
supportLoop(vertices, dir, i, idx, maxValue) ==
    IF i > Len(vertices) THEN idx
    ELSE LET value == dot(dir, vertices[i])
         IN  IF value > maxValue
             THEN supportLoop(vertices, dir, i + 1, i, value)
             ELSE supportLoop(vertices, dir, i + 1, idx, maxValue)

\* dir.normalized().mulS(radius), exact for the axis directions, which are the
\* only ones a pair of circles with centres on one horizontal line produces
circleSupport(dir, radius) ==
    IF dir[2] = 0 THEN <<Sgn(dir[1]) * radius, 0>>
    ELSE IF dir[1] = 0 THEN <<0, Sgn(dir[2]) * radius>>
    ELSE ZeroVec

\* what support gives when it throws "Not supported shape" instead of returning
Thrown == <<"Not supported shape">>

\* support that takes every body that is not a polygon for a circle
supportOfRound(collider, dir) ==
    IF collider.shape = "Polygon"
    THEN collider.vertices[supportLoop(collider.vertices, dir, 2, 1,
                                       dot(dir, collider.vertices[1]))]
    ELSE circleSupport(dir, collider.radius)

\* the farthest point of the collider in direction dir (local space)
support(collider, dir) ==
    IF collider.shape = "Polygon"
    THEN collider.vertices[supportLoop(collider.vertices, dir, 2, 1,
                                       dot(dir, collider.vertices[1]))]
    ELSE IF collider.shape = "Circle"
    THEN circleSupport(dir, collider.radius)
    ELSE Thrown

\* csoSupport does not return: one of its two calls of support throws
csoSupportThrows(c1, c2, dir) ==
    \/ support(c1, globalToLocalDir(c1, dir)) = Thrown
    \/ support(c2, globalToLocalDir(c2, mulS(dir, -1))) = Thrown

csoSupport(c1, c2, dir) ==
    LET localDirP1 == globalToLocalDir(c1, dir)
        localDirP2 == globalToLocalDir(c2, mulS(dir, -1))
        supportP1 == localToGlobalPoint(c1, support(c1, localDirP1))
        supportP2 == localToGlobalPoint(c2, support(c2, localDirP2))
    IN  [support |-> subV(supportP1, supportP2),
         supportA |-> supportP1,
         supportB |-> supportP2]

\* ------------------------------------------------------------- util
\* the loop of checkInside over the edges 1 .. n - 1 (0-based) of a polygon
RECURSIVE checkInsideLoop(_, _, _, _)
checkInsideLoop(vertices, localP, dir, i) ==
    IF i > Len(vertices) THEN TRUE
    ELSE LET next == vertices[(i % Len(vertices)) + 1]
             nDir == cross(subV(vertices[i], localP), subV(next, localP))
         IN  IF dir * nDir < 0 THEN FALSE
             ELSE checkInsideLoop(vertices, localP, dir, i + 1)

\* checkInside(b, p): whether it threw and, when it did not, what it returned
checkInside(b, p) ==
    LET localP == globalToLocalPoint(b, p)
    IN  IF b.shape = "Circle"
        THEN [threw |-> FALSE, inside |-> len2(localP) <= b.radius * b.radius]
        ELSE IF b.shape = "Polygon"
        THEN LET dir == cross(subV(b.vertices[1], localP), subV(b.vertices[2], localP))
             IN  [threw |-> FALSE,
                  inside |-> checkInsideLoop(b.vertices, localP, dir, 2)]
        ELSE [threw |-> TRUE, inside |-> FALSE]

\* getUV(a, b, p): region = dir.dot(p - a) / len with dir = (b - a) / len,
\* kept as the fraction vn / d;  u = un / d,  v = vn / d
getUV(a, b, p) ==
    LET dir == subV(b, a)
        d == len2(dir)
        region == dot(dir, subV(p, a))
    IN  [un |-> d - region, vn |-> region, d |-> d]

\* lerpVector(a, b, uv) = a * u + b * v, as a numerator vector over uv.d
lerpVector(a, b, uv) ==
    [num |-> addV(mulS(a, uv.un), mulS(b, uv.vn)), den |-> uv.d]

\* 10^13 = 1 / limit of toFixed, split so that every factor fits 32 bits
DivLimitInv(x) == (x \div 1000000) \div 10000000

\* toFixed(n / d) = Math.round((n / d) / 1e-13) * 1e-13 is zero, for d > 0
toFixedIsZero(n, d) ==
    IF n >= 0 THEN 2 * n <= DivLimitInv(d - 1) ELSE 2 * (-n) <= DivLimitInv(d)

\* toFixed(n / sqrt(d2)) > 0, for d2 > 0: the rounded quotient is at least 1
toFixedIsPositive(n, d2) ==
    n > 0 /\ 2 * n >= DivLimitInv(ISqrtCeil(d2) - 1) + 1

\* ------------------------------------------------------------- Simplex
EmptySimplex == [vertices |-> <<>>, supports |-> <<>>]

\* Simplex.addVertex(vertex, support)
addVertex(simplex, vertex, supportPair) ==
    [vertices |-> Append(simplex.vertices, vertex),
     supports |-> Append(simplex.supports, supportPair)]

\* Simplex.containsVertex(vertex)
containsVertex(simplex, vertex) ==
    \E i \in 1..Len(simplex.vertices) : simplex.vertices[i] = vertex

\* the closest point of segment ab to q and the vertices (positions in the
\* simplex) that carry it
closestOnSegment(a, b, q, ia, ib) ==
    LET w == getUV(a, b, q)
    IN  IF w.vn <= 0 THEN [num |-> a, den |-> 1, info |-> <<ia>>]
        ELSE IF w.vn >= w.d THEN [num |-> b, den |-> 1, info |-> <<ib>>]
        ELSE [num |-> lerpVector(a, b, w).num, den |-> w.d, info |-> <<ia, ib>>]

\* Simplex.getClosest(q): the point of the simplex closest to q, and the
\* minimal sub-simplex that supports it
getClosest(simplex, q) ==
    LET vs == simplex.vertices
    IN  CASE Len(vs) = 1 -> [num |-> vs[1], den |-> 1, info |-> <<1>>]
          [] Len(vs) = 2 -> closestOnSegment(vs[1], vs[2], q, 1, 2)
          [] OTHER ->
             LET a == vs[1]
                 b == vs[2]
                 c == vs[3]
                 wab == getUV(a, b, q)
                 wbc == getUV(b, c, q)
                 wca == getUV(c, a, q)
                 area == cross(subV(b, a), subV(c, a))
                 u == cross(subV(b, q), subV(c, q))
                 v == cross(subV(c, q), subV(a, q))
                 w == cross(subV(a, q), subV(b, q))
             IN  IF wca.un <= 0 /\ wab.vn <= 0
                 THEN [num |-> a, den |-> 1, info |-> <<1>>]
                 ELSE IF wab.un <= 0 /\ wbc.vn <= 0
                 THEN [num |-> b, den |-> 1, info |-> <<2>>]
                 ELSE IF wbc.un <= 0 /\ wca.vn <= 0
                 THEN [num |-> c, den |-> 1, info |-> <<3>>]
                 ELSE IF wab.un > 0 /\ wab.vn > 0 /\ w * area <= 0
                 THEN [num |-> lerpVector(a, b, wab).num, den |-> wab.d, info |-> <<1, 2>>]
                 ELSE IF wbc.un > 0 /\ wbc.vn > 0 /\ u * area <= 0
                 THEN [num |-> lerpVector(b, c, wbc).num, den |-> wbc.d, info |-> <<2, 3>>]
                 ELSE IF wca.un > 0 /\ wca.vn > 0 /\ v * area <= 0
                 THEN [num |-> lerpVector(c, a, wca).num, den |-> wca.d, info |-> <<3, 1>>]
                 ELSE [num |-> q, den |-> 1, info |-> <<1, 2, 3>>]

\* ------------------------------------------------------------- gjk
MAX_ITERATION == 20

origin == ZeroVec

\* closestIsOrigin with the coordinates rounded to whole numbers instead of to
\* multiples of 1e-13
closestIsOriginCoarse(closest) ==
    /\ 2 * Abs(closest.num[1]) < closest.den
    /\ 2 * Abs(closest.num[2]) < closest.den

\* closest.result.fixed().equals(origin)
closestIsOrigin(closest) ==
    /\ toFixedIsZero(closest.num[1], closest.den)
    /\ toFixedIsZero(closest.num[2], closest.den)

\* no rebuild: every vertex of the simplex is kept
rebuildSimplexKeepAll(simplex, closest) == simplex

\* the simplex rebuilt from the vertices that carry the closest point
rebuildSimplex(simplex, closest) ==
    IF Len(simplex.vertices) # 1
    THEN [vertices |-> [i \in 1..Len(closest.info) |-> simplex.vertices[closest.info[i]]],
          supports |-> [i \in 1..Len(closest.info) |-> simplex.supports[closest.info[i]]]]
    ELSE simplex

\* toFixed(dir.getLength() - dir.normalized().dot(support - closest)) > 0 with
\* dir = origin - closest.  For closest = cn / cd the difference equals
\* (cn . support) / |cn|.
notFurtherAlong(closest, supportPoint) ==
    toFixedIsPositive(dot(closest.num, supportPoint.support), len2(closest.num))

\* gjkPass without the break after result.collide = true
gjkPassNoBreak(c1, c2, simplex) ==
    LET closest == getClosest(simplex, origin)
    IN  IF closestIsOrigin(closest)
        THEN [simplex |-> simplex, collide |-> TRUE, brk |-> FALSE, why |-> "origin"]
        ELSE LET rebuilt == rebuildSimplex(simplex, closest)
                 dir == subV(origin, closest.num)
                 supportPoint == csoSupport(c1, c2, dir)
             IN  IF notFurtherAlong(closest, supportPoint)
                 THEN [simplex |-> rebuilt, collide |-> FALSE, brk |-> TRUE,
                       why |-> "separated"]
                 ELSE IF containsVertex(rebuilt, supportPoint.support)
                 THEN [simplex |-> rebuilt, collide |-> FALSE, brk |-> TRUE,
                       why |-> "duplicate"]
                 ELSE [simplex |-> addVertex(rebuilt, supportPoint.support,
                                             [p1 |-> supportPoint.supportA,
                                              p2 |-> supportPoint.supportB]),
                       collide |-> FALSE, brk |-> FALSE, why |-> "added"]

\* One pass of the body of gjk's loop over the simplex: the simplex after the
\* pass, the collide flag, and whether the pass left the loop (break).
gjkPass(c1, c2, simplex) ==
    LET closest == getClosest(simplex, origin)
    IN  IF closestIsOrigin(closest)
        THEN [simplex |-> simplex, collide |-> TRUE, brk |-> TRUE, why |-> "origin"]
        ELSE LET rebuilt == rebuildSimplex(simplex, closest)
                 dir == subV(origin, closest.num)
                 supportPoint == csoSupport(c1, c2, dir)
             IN  IF notFurtherAlong(closest, supportPoint)
                 THEN [simplex |-> rebuilt, collide |-> FALSE, brk |-> TRUE,
                       why |-> "separated"]
                 ELSE IF containsVertex(rebuilt, supportPoint.support)
                 THEN [simplex |-> rebuilt, collide |-> FALSE, brk |-> TRUE,
                       why |-> "duplicate"]
                 ELSE [simplex |-> addVertex(rebuilt, supportPoint.support,
                                             [p1 |-> supportPoint.supportA,
                                              p2 |-> supportPoint.supportB]),
                       collide |-> FALSE, brk |-> FALSE, why |-> "added"]

\* the simplex gjk starts its loop with: one support point along (1, 0)
gjkFirstSimplex(c1, c2) ==
    LET supportPoint == csoSupport(c1, c2, <<1, 0>>)
    IN  addVertex(EmptySimplex, supportPoint.support,
                  [p1 |-> supportPoint.supportA, p2 |-> supportPoint.supportB])

\* ------------------------------------------------------------- Polytope
\* new Polytope(simplex): the simplex's vertices and witness pairs
Polytope(simplex) == [vertices |-> simplex.vertices, supports |-> simplex.supports]

\* An edge's distance is dn / sqrt(d2) and its unit normal is normal / sqrt(d2).
\* index 0 with inf = TRUE is the loop's start value (distance Infinity).
NoEdge == [index |-> 0, dn |-> 0, normal |-> ZeroVec, d2 |-> 1, inf |-> TRUE]

\* distance of edge e < distance of edge m
edgeCloser(e, m) ==
    m.inf \/ e.dn * e.dn * m.d2 < m.dn * m.dn * e.d2

\* edge i of the polytope: normal (-edge.y, edge.x).normalized(), distance
\* normal.dot(vertexI), both negated when the distance is negative
polytopeEdge(polytope, i) ==
    LET j == (i % Len(polytope.vertices)) + 1
        vertexI == polytope.vertices[i]
        vertexJ == polytope.vertices[j]
        edge == subV(vertexJ, vertexI)
        normal == <<-edge[2], edge[1]>>
        distance == dot(normal, vertexI)
    IN  IF len2(edge) = 0
        THEN [index |-> i, dn |-> 0, normal |-> ZeroVec, d2 |-> 1, inf |-> FALSE]
        ELSE IF distance < 0
        THEN [index |-> i, dn |-> -distance, normal |-> inverted(normal),
              d2 |-> len2(edge), inf |-> FALSE]
        ELSE [index |-> i, dn |-> distance, normal |-> normal,
              d2 |-> len2(edge), inf |-> FALSE]

RECURSIVE closestEdgeLoop(_, _, _)
closestEdgeLoop(polytope, i, min) ==
    IF i > Len(polytope.vertices) THEN min
    ELSE LET e == polytopeEdge(polytope, i)
         IN  closestEdgeLoop(polytope, i + 1, IF edgeCloser(e, min) THEN e ELSE min)

\* Polytope.getClosestEdge(): the first edge of minimum distance to the origin
getClosestEdge(polytope) == closestEdgeLoop(polytope, 1, NoEdge)

\* ------------------------------------------------------------- epa
\* 1 / TOLERANCE, TOLERANCE = 0.001
TOLERANCE_INV == 1000

\* seq with x inserted after position i (splice(i + 1, 0, x) on 0-based i)
spliceAfter(seq, i, x) ==
    [k \in 1..(Len(seq) + 1) |->
        IF k <= i THEN seq[k] ELSE IF k = i + 1 THEN x ELSE seq[k - 1]]

\* expandsEdge with the comparison turned round
expandsEdgeInverted(closestEdge, supportPoint) ==
    TOLERANCE_INV * Abs(closestEdge.dn - dot(closestEdge.normal, supportPoint.support))
        < ISqrt(closestEdge.d2)

\* Math.abs(closestEdge.distance - newDistance) > TOLERANCE, where
\* newDistance = closestEdge.normal.dot(supportPoint.support)
expandsEdge(closestEdge, supportPoint) ==
    TOLERANCE_INV * Abs(closestEdge.dn - dot(closestEdge.normal, supportPoint.support))
        > ISqrt(closestEdge.d2)

\* expandPolytope that splices the vertex but not its witness pair
expandPolytopeVerticesOnly(polytope, closestEdge, supportPoint) ==
    [vertices |-> spliceAfter(polytope.vertices, closestEdge.index, supportPoint.support),
     supports |-> polytope.supports]

\* the polytope with the support vertex inserted after the closest edge's
\* first vertex
expandPolytope(polytope, closestEdge, supportPoint) ==
    [vertices |-> spliceAfter(polytope.vertices, closestEdge.index, supportPoint.support),
     supports |-> spliceAfter(polytope.supports, closestEdge.index,
                              [p1 |-> supportPoint.supportA, p2 |-> supportPoint.supportB])]

\* One pass of the body of epa's loop.
epaPass(c1, c2, polytope) ==
    LET closestEdge == getClosestEdge(polytope)
        supportPoint == csoSupport(c1, c2, closestEdge.normal)
    IN  IF expandsEdge(closestEdge, supportPoint)
        THEN [polytope |-> expandPolytope(polytope, closestEdge, supportPoint),
              closestEdge |-> closestEdge, brk |-> FALSE]
        ELSE [polytope |-> polytope, closestEdge |-> closestEdge, brk |-> TRUE]

\* What epa returns from the polytope and closestEdge its loop ended with.
\* penetrationDepth = depthNum / sqrt(normalLen2), contactNormal =
\* normal / sqrt(normalLen2), a contact point = num / den.
epaResult(polytope, closestEdge) ==
    LET count == Len(polytope.vertices)
        next == (closestEdge.index % count) + 1
        a == polytope.vertices[closestEdge.index]
        b == polytope.vertices[next]
        supportA1 == polytope.supports[closestEdge.index].p1
        supportB1 == polytope.supports[closestEdge.index].p2
        supportA2 == polytope.supports[next].p1
        supportB2 == polytope.supports[next].p2
        uv == getUV(a, b, ZeroVec)
    IN  [depthNum |-> closestEdge.dn,
         normal |-> closestEdge.normal,
         normalLen2 |-> closestEdge.d2,
         uv |-> uv,
         contactPointA |-> lerpVector(supportA1, supportA2, uv),
         contactPointB |-> lerpVector(supportB1, supportB2, uv)]

\* ------------------------------------------------------------- numbers
\* A number of the solver is <<n, d>>: the fraction n/d in lowest terms with
\* d > 0, or Infinity <<1, 0>>, -Infinity <<-1, 0>>, NaN <<0, 0>>: what the
\* solver's arithmetic gives for 1.0 / 0 and 0 * Infinity.
RECURSIVE GCD(_, _)
GCD(a, b) == IF b = 0 THEN a ELSE GCD(b, a % b)

Num(n, d) ==
    IF d = 0 THEN <<Sgn(n), 0>>
    ELSE LET g == GCD(Abs(n), Abs(d)) IN <<(Sgn(d) * n) \div g, Abs(d) \div g>>

Zero == <<0, 1>>

NaN == <<0, 0>>

Infinity == <<1, 0>>

isNaN(x) == x = NaN

isFinite(x) == x[2] # 0

numNeg(x) == <<-x[1], x[2]>>

numAdd(x, y) ==
    IF isNaN(x) \/ isNaN(y) THEN NaN
    ELSE IF ~isFinite(x) /\ ~isFinite(y) THEN (IF x = y THEN x ELSE NaN)
    ELSE IF ~isFinite(x) THEN x
    ELSE IF ~isFinite(y) THEN y
    ELSE LET g == GCD(x[2], y[2])
         IN  Num(x[1] * (y[2] \div g) + y[1] * (x[2] \div g), (x[2] \div g) * y[2])

numSub(x, y) == numAdd(x, numNeg(y))

\* 0 * Infinity is NaN: Num(0, 0)
numMul(x, y) ==
    LET g1 == IF isFinite(x) /\ isFinite(y) THEN GCD(Abs(x[1]), y[2]) ELSE 1
        g2 == IF isFinite(x) /\ isFinite(y) THEN GCD(Abs(y[1]), x[2]) ELSE 1
    IN  Num((x[1] \div g1) * (y[1] \div g2), (x[2] \div g2) * (y[2] \div g1))

\* 1.0 / x: Infinity for x = 0, 0 for an infinite x
numInv(x) == Num(x[2], x[1])

numDiv(x, y) == numMul(x, numInv(y))

\* x < y; false when either is NaN
numLess(x, y) ==
    IF isNaN(x) \/ isNaN(y) \/ x = y THEN FALSE
    ELSE IF ~isFinite(x) THEN x[1] < 0
    ELSE IF ~isFinite(y) THEN y[1] > 0
    ELSE x[1] * y[2] < y[1] * x[2]

\* x <= y; false when either is NaN
numLeq(x, y) == ~isNaN(x) /\ ~isNaN(y) /\ ~numLess(y, x)

numAbs(x) == <<Abs(x[1]), x[2]>>

\* Math.max: NaN when either argument is NaN
max(x, y) ==
    IF isNaN(x) \/ isNaN(y) THEN NaN ELSE IF numLess(x, y) THEN y ELSE x

clamp(value, min, max_) ==
    IF numLess(value, min) THEN min
    ELSE IF numLess(max_, value) THEN max_
    ELSE value

\* vectors of such numbers
QV(v) == <<Num(v[1], 1), Num(v[2], 1)>>

qAddV(a, b) == <<numAdd(a[1], b[1]), numAdd(a[2], b[2])>>

qSubV(a, b) == <<numSub(a[1], b[1]), numSub(a[2], b[2])>>

qMulS(a, s) == <<numMul(a[1], s), numMul(a[2], s)>>

qDot(a, b) == numAdd(numMul(a[1], b[1]), numMul(a[2], b[2]))

qCross(a, b) == numSub(numMul(a[1], b[2]), numMul(a[2], b[1]))

qInverted(a) == <<numNeg(a[1]), numNeg(a[2])>>

\* Util.cross(scalar, vector)
crossSV(scalar, vector) ==
    <<numMul(numNeg(scalar), vector[2]), numMul(scalar, vector[1])>>

\* ------------------------------------------------------------- rigid bodies
\* Number.MAX_VALUE: a finite number above every mass, inertia and friction of
\* the model
MAX_VALUE == <<1000000, 1>>

\* set mass(m): the stored mass and its inverse
setMass(m) ==
    LET mass == clamp(m, Zero, MAX_VALUE)
    IN  [mass |-> mass,
         inverseMass |-> IF mass = Zero THEN Zero ELSE numInv(mass)]

\* set inertia(i): the stored inertia, and the inverse, which the setter takes
\* of its argument i
setInertia(i) ==
    LET inertia == clamp(i, Zero, MAX_VALUE)
    IN  [inertia |-> inertia,
         inverseInertia |-> IF inertia = Zero THEN Zero ELSE numInv(i)]

\* a body as the solvers read it: centre of mass in world space, rotation,
\* force and torque as the constructor leaves them, velocities, mass and
\* inertia with their inverses, and the three coefficients
Body(center, mass, inertia, linearVelocity, angularVelocity, friction, restitution, contactBeta) ==
    [center |-> center,
     rotation |-> Zero,
     force |-> <<Zero, Zero>>,
     torque |-> Zero,
     mass |-> setMass(mass).mass,
     inverseMass |-> setMass(mass).inverseMass,
     inertia |-> setInertia(inertia).inertia,
     inverseInertia |-> setInertia(inertia).inverseInertia,
     linearVelocity |-> linearVelocity,
     angularVelocity |-> angularVelocity,
     friction |-> clamp(friction, Zero, MAX_VALUE),
     restitution |-> clamp(restitution, Zero, <<1, 1>>),
     contactBeta |-> clamp(contactBeta, Zero, <<1, 1>>)]

\* ------------------------------------------------------------- contact solver
penetration_slop == <<1, 2>>

restitution_slop == <<10, 1>>

ConstraintType == {"Normal", "Tangent"}

NoJacobian == [va |-> <<NaN, NaN>>, wa |-> NaN, vb |-> <<NaN, NaN>>, wb |-> NaN]

\* new ContactConstraintSolver(contact, contactPoint): the fields init has not
\* assigned yet are NaN
ContactConstraintSolver(bodyA, bodyB, contactPoint) ==
    [ra |-> QV(subV(contactPoint, bodyA.center)),
     rb |-> QV(subV(contactPoint, bodyB.center)),
     constraintType |-> "unset",
     jacobian |-> NoJacobian,
     bias |-> Zero,
     effectiveMass |-> NaN,
     beta |-> NaN,
     restitution |-> NaN,
     friction |-> NaN,
     impulseSum |-> Zero]

\* the bias of a normal constraint
normalBias(solver, a, b, manifold, beta, restitution, delta) ==
    LET relativeVelocity ==
            qSubV(qAddV(b.linearVelocity, crossSV(b.angularVelocity, solver.rb)),
                  qAddV(a.linearVelocity, crossSV(a.angularVelocity, solver.ra)))
        approachingVelocity == qDot(relativeVelocity, manifold.contactNormal)
    IN  numAdd(numMul(numNeg(numDiv(beta, delta)),
                      max(numSub(manifold.penetrationDepth, penetration_slop), Zero)),
               numMul(restitution,
                      max(numSub(approachingVelocity, restitution_slop), Zero)))

\* this.effectiveMass = 1.0 / k
effectiveMassOf(k) == numInv(k)

\* ContactConstraintSolver.init
init(solver, a, b, manifold, dir, constraintType, delta) ==
    LET beta == numMul(a.contactBeta, b.contactBeta)
        restitution == numMul(a.restitution, b.restitution)
        friction == numMul(a.friction, b.friction)
        jacobian == [va |-> qInverted(dir),
                     wa |-> numNeg(qCross(solver.ra, dir)),
                     vb |-> dir,
                     wb |-> qCross(solver.rb, dir)]
        bias == IF constraintType = "Normal"
                THEN normalBias(solver, a, b, manifold, beta, restitution, delta)
                ELSE solver.bias
        k == numAdd(numAdd(numAdd(a.inverseMass,
                                  numMul(numMul(jacobian.wa, a.inverseInertia),
                                         jacobian.wa)),
                           b.inverseMass),
                    numMul(numMul(jacobian.wb, b.inverseInertia), jacobian.wb))
    IN  [solver EXCEPT !.constraintType = constraintType,
                       !.beta = beta,
                       !.restitution = restitution,
                       !.friction = friction,
                       !.jacobian = jacobian,
                       !.bias = bias,
                       !.effectiveMass = effectiveMassOf(k)]

\* case ConstraintType.Normal of solve
accumulateNormal(impulseSum, lambda) == max(Zero, numAdd(impulseSum, lambda))

\* case ConstraintType.Tangent of solve
accumulateTangent(impulseSum, lambda, friction, friendImpulse) ==
    LET maxFriction == numMul(friction, friendImpulse)
    IN  clamp(numAdd(impulseSum, lambda), numNeg(maxFriction), maxFriction)

\* applyImpulse that also moves the body along the impulse
applyImpulseAndMove(body, v, w, lambda) ==
    [body EXCEPT
        !.center = IF lambda = Zero THEN body.center ELSE addV(body.center, <<1, 0>>),
        !.linearVelocity = qAddV(body.linearVelocity,
                                 qMulS(v, numMul(body.inverseMass, lambda))),
        !.angularVelocity = numAdd(body.angularVelocity,
                                   numMul(numMul(body.inverseInertia, w), lambda))]

\* a body after an impulse lambda along its part of the jacobian
applyImpulse(body, v, w, lambda) ==
    [body EXCEPT
        !.linearVelocity = qAddV(body.linearVelocity,
                                 qMulS(v, numMul(body.inverseMass, lambda))),
        !.angularVelocity = numAdd(body.angularVelocity,
                                   numMul(numMul(body.inverseInertia, w), lambda))]

\* solve that applies lambda as computed, before the clamp of impulseSum
solveUnclamped(solver, a, b, friendNormal) ==
    LET jacobian == solver.jacobian
        jv == numAdd(numAdd(numAdd(qDot(jacobian.va, a.linearVelocity),
                                   numMul(jacobian.wa, a.angularVelocity)),
                            qDot(jacobian.vb, b.linearVelocity)),
                     numMul(jacobian.wb, b.angularVelocity))
        lambda == numMul(solver.effectiveMass, numNeg(numAdd(jv, solver.bias)))
        impulseSum == IF solver.constraintType = "Normal"
                      THEN accumulateNormal(solver.impulseSum, lambda)
                      ELSE accumulateTangent(solver.impulseSum, lambda, solver.friction,
                                             friendNormal.impulseSum)
    IN  [solver |-> [solver EXCEPT !.impulseSum = impulseSum],
         lambda |-> lambda,
         a |-> applyImpulse(a, jacobian.va, jacobian.wa, lambda),
         b |-> applyImpulse(b, jacobian.vb, jacobian.wb, lambda)]

\* ContactConstraintSolver.solve: the solver, the impulse it applied and the
\* two bodies after it
solve(solver, a, b, friendNormal) ==
    LET jacobian == solver.jacobian
        jv == numAdd(numAdd(numAdd(qDot(jacobian.va, a.linearVelocity),
                                   numMul(jacobian.wa, a.angularVelocity)),
                            qDot(jacobian.vb, b.linearVelocity)),
                     numMul(jacobian.wb, b.angularVelocity))
        lambda0 == numMul(solver.effectiveMass, numNeg(numAdd(jv, solver.bias)))
        oldImpulseSum == solver.impulseSum
        impulseSum == IF solver.constraintType = "Normal"
                      THEN accumulateNormal(oldImpulseSum, lambda0)
                      ELSE accumulateTangent(oldImpulseSum, lambda0, solver.friction,
                                             friendNormal.impulseSum)
        lambda == numSub(impulseSum, oldImpulseSum)
    IN  [solver |-> [solver EXCEPT !.impulseSum = impulseSum],
         lambda |-> lambda,
         a |-> applyImpulse(a, jacobian.va, jacobian.wa, lambda),
         b |-> applyImpulse(b, jacobian.vb, jacobian.wb, lambda)]

\* new ContactManifold(bodyA, bodyB, contactPoints, penetrationDepth, contactNormal)
ContactManifold(contactPoints, penetrationDepth, contactNormal) ==
    [contactPoints |-> contactPoints,
     penetrationDepth |-> penetrationDepth,
     contactNormal |-> QV(contactNormal),
     contactTangent |-> QV(<<-contactNormal[2], contactNormal[1]>>)]

numContacts(m) == Len(m.contactPoints)

\* the order of the two solve calls in ContactManifold.solve's loop body,
\* tangent first
solveOrderTangentFirst == <<"Tangent", "Normal">>

\* the order of the two solve calls in ContactManifold.solve's loop body
solveOrder == <<"Normal", "Tangent">>

\* ------------------------------------------------------------- joints
\* the square root of a number: exact when the numerator and the denominator
\* are squares, otherwise rounded down to a multiple of 1 / denominator
numSqrt(x) ==
    IF ~isFinite(x) THEN (IF x = Infinity THEN Infinity ELSE NaN)
    ELSE IF x[1] < 0 THEN NaN
    ELSE IF ISqrt(x[1]) * ISqrt(x[1]) = x[1] /\ ISqrt(x[2]) * ISqrt(x[2]) = x[2]
    THEN Num(ISqrt(x[1]), ISqrt(x[2]))
    ELSE Num(ISqrt(x[1] * x[2]), x[2])

\* Vector2.length
qLength(v) == numSqrt(qDot(v, v))

\* Vector2.normalized
qNormalized(v) == qMulS(v, numInv(qLength(v)))

Matrix2(m00, m01, m10, m11) == [m00 |-> m00, m01 |-> m01, m10 |-> m10, m11 |-> m11]

\* Matrix2.inverted: the adjugate over the determinant
inverted2(m) ==
    LET det == numSub(numMul(m.m00, m.m11), numMul(m.m01, m.m10))
    IN  Matrix2(numDiv(m.m11, det), numDiv(numNeg(m.m01), det),
                numDiv(numNeg(m.m10), det), numDiv(m.m00, det))

\* Matrix2.mulVector
mulVector2(m, v) ==
    <<numAdd(numMul(m.m00, v[1]), numMul(m.m01, v[2])),
      numAdd(numMul(m.m10, v[1]), numMul(m.m11, v[2]))>>

\* the soft-constraint coefficients of a joint's constructor, from
\* omega = 2 * PI * frequency, the damping ratio, the mass and the timestep h
softness(mass, omega, dampingRatio, h) ==
    LET d == numMul(numMul(numMul(<<2, 1>>, mass), clamp(dampingRatio, Zero, <<1, 1>>)),
                    omega)
        k == numMul(numMul(mass, omega), omega)
        hk == numMul(h, k)
    IN  [beta |-> numDiv(hk, numAdd(d, hk)),
         gamma |-> numInv(numMul(numAdd(d, hk), h))]

\* if (mass <= 0) mass = bodyB.mass
jointMass(mass, body) == IF numLeq(mass, Zero) THEN body.mass ELSE mass

\* the linear part of a two-body joint's matrix k before the softness
linearK(a, b, ra, rb) ==
    Matrix2(numAdd(numAdd(numAdd(a.inverseMass, b.inverseMass),
                          numMul(numMul(a.inverseInertia, ra[2]), ra[2])),
                   numMul(numMul(b.inverseInertia, rb[2]), rb[2])),
            numSub(numMul(numMul(numNeg(a.inverseInertia), ra[2]), ra[1]),
                   numMul(numMul(b.inverseInertia, rb[2]), rb[1])),
            numSub(numMul(numMul(numNeg(a.inverseInertia), ra[1]), ra[2]),
                   numMul(numMul(b.inverseInertia, rb[1]), rb[2])),
            numAdd(numAdd(numAdd(a.inverseMass, b.inverseMass),
                          numMul(numMul(a.inverseInertia, ra[1]), ra[1])),
                   numMul(numMul(b.inverseInertia, rb[1]), rb[1])))

\* applyImpulse that pushes both bodies the same way
applyImpulse2SameSign(a, b, ra, rb, lambda01, lambda2) ==
    LET wa == numAdd(a.angularVelocity, numMul(a.inverseInertia, qCross(ra, lambda01)))
        wb == numAdd(b.angularVelocity, numMul(b.inverseInertia, qCross(rb, lambda01)))
    IN  [a |-> [a EXCEPT
                  !.linearVelocity = qAddV(a.linearVelocity, qMulS(lambda01, a.inverseMass)),
                  !.angularVelocity = numAdd(wa, numMul(lambda2, a.inverseInertia))],
         b |-> [b EXCEPT
                  !.linearVelocity = qAddV(b.linearVelocity, qMulS(lambda01, b.inverseMass)),
                  !.angularVelocity = numAdd(wb, numMul(lambda2, b.inverseInertia))]]

\* applyImpulse of the two-body joints: the two bodies after it
applyImpulse2(a, b, ra, rb, lambda01, lambda2) ==
    LET wa == numSub(a.angularVelocity, numMul(a.inverseInertia, qCross(ra, lambda01)))
        wb == numAdd(b.angularVelocity, numMul(b.inverseInertia, qCross(rb, lambda01)))
    IN  [a |-> [a EXCEPT
                  !.linearVelocity = qSubV(a.linearVelocity, qMulS(lambda01, a.inverseMass)),
                  !.angularVelocity = numSub(wa, numMul(lambda2, a.inverseInertia))],
         b |-> [b EXCEPT
                  !.linearVelocity = qAddV(b.linearVelocity, qMulS(lambda01, b.inverseMass)),
                  !.angularVelocity = numAdd(wb, numMul(lambda2, b.inverseInertia))]]

\* relative velocity of the two anchor points: the linear part of J v
relativeAnchorVelocity(a, b, ra, rb) ==
    qSubV(qAddV(b.linearVelocity, crossSV(b.angularVelocity, rb)),
          qAddV(a.linearVelocity, crossSV(a.angularVelocity, ra)))

\* new MotorJoint(bodyA, bodyB, anchor, maxForce, maxTorque, frequency,
\* dampingRatio, mass); the bodies are not rotated
MotorJoint(a, b, anchor, maxForce, maxTorque, omega, dampingRatio, mass, settings) ==
    LET soft == softness(jointMass(mass, b), omega, dampingRatio, settings.dt)
    IN  [kind |-> "Motor",
         linearImpulseSum |-> <<Zero, Zero>>,
         angularImpulseSum |-> Zero,
         linearOffset |-> <<Zero, Zero>>,
         initialAngle |-> Zero,
         angularOffset |-> Zero,
         maxForce |-> maxForce,
         maxTorque |-> maxTorque,
         localAnchorA |-> QV(subV(anchor, a.center)),
         localAnchorB |-> QV(subV(anchor, b.center)),
         beta |-> soft.beta,
         gamma |-> soft.gamma,
         ra |-> <<NaN, NaN>>, rb |-> <<NaN, NaN>>,
         m0 |-> Matrix2(NaN, NaN, NaN, NaN), m1 |-> NaN,
         bias0 |-> <<NaN, NaN>>, bias1 |-> NaN]

\* MotorJoint.prepare that starts every step from a zero impulse
motorPrepareCold(joint, a, b, settings) ==
    LET ra == joint.localAnchorA
        rb == joint.localAnchorB
        k == linearK(a, b, ra, rb)
        k0 == [k EXCEPT !.m00 = numAdd(k.m00, joint.gamma),
                        !.m11 = numAdd(k.m11, joint.gamma)]
        k1 == numAdd(numAdd(a.inverseInertia, b.inverseInertia), joint.gamma)
    IN  [joint |-> [joint EXCEPT
                      !.ra = ra, !.rb = rb,
                      !.m0 = inverted2(k0), !.m1 = numInv(k1),
                      !.bias0 = <<Zero, Zero>>, !.bias1 = Zero,
                      !.linearImpulseSum = <<Zero, Zero>>,
                      !.angularImpulseSum = Zero],
         a |-> a,
         b |-> b]

\* MotorJoint.prepare: the joint and the two bodies after it
motorPrepare(joint, a, b, settings) ==
    LET ra == joint.localAnchorA
        rb == joint.localAnchorB
        k == linearK(a, b, ra, rb)
        k0 == [k EXCEPT !.m00 = numAdd(k.m00, joint.gamma),
                        !.m11 = numAdd(k.m11, joint.gamma)]
        k1 == numAdd(numAdd(a.inverseInertia, b.inverseInertia), joint.gamma)
        pa == qAddV(QV(a.center), ra)
        pb == qAddV(QV(b.center), rb)
        error0 == qSubV(pb, qAddV(pa, joint.linearOffset))
        error1 == numSub(numSub(Zero, joint.initialAngle), joint.angularOffset)
        scale == numMul(joint.beta, settings.inv_dt)
        prepared == [joint EXCEPT
                        !.ra = ra, !.rb = rb,
                        !.m0 = inverted2(k0), !.m1 = numInv(k1),
                        !.bias0 = IF settings.positionCorrection
                                  THEN qMulS(error0, scale) ELSE <<Zero, Zero>>,
                        !.bias1 = IF settings.positionCorrection
                                  THEN numMul(numMul(error1, joint.beta), settings.inv_dt)
                                  ELSE Zero]
        warm == applyImpulse2(a, b, ra, rb, joint.linearImpulseSum,
                              joint.angularImpulseSum)
    IN  IF settings.warmStarting
        THEN [joint |-> prepared, a |-> warm.a, b |-> warm.b]
        ELSE [joint |-> prepared, a |-> a, b |-> b]

\* MotorJoint.solve: the joint and the two bodies after it
motorSolve(joint, a, b, settings) ==
    LET jv0 == relativeAnchorVelocity(a, b, joint.ra, joint.rb)
        jv1 == numSub(b.angularVelocity, a.angularVelocity)
        raw0 == mulVector2(joint.m0,
                           qInverted(qAddV(qAddV(jv0, joint.bias0),
                                           qMulS(joint.linearImpulseSum, joint.gamma))))
        raw1 == numMul(joint.m1, numNeg(numAdd(jv1, joint.bias1)))
        maxLinearImpulse == numMul(settings.dt, joint.maxForce)
        sum0 == qAddV(joint.linearImpulseSum, raw0)
        clamped0 == IF numLess(maxLinearImpulse, qLength(sum0))
                    THEN qMulS(qNormalized(sum0), maxLinearImpulse)
                    ELSE sum0
        lambda0 == qSubV(clamped0, joint.linearImpulseSum)
        maxAngularImpulse == numMul(settings.dt, joint.maxTorque)
        clamped1 == clamp(numAdd(joint.angularImpulseSum, raw1),
                          numNeg(maxAngularImpulse), maxAngularImpulse)
        lambda1 == numSub(clamped1, joint.angularImpulseSum)
        applied == applyImpulse2(a, b, joint.ra, joint.rb, lambda0, lambda1)
    IN  [joint |-> [joint EXCEPT
                      !.linearImpulseSum = IF settings.warmStarting
                                           THEN qAddV(clamped0, lambda0) ELSE clamped0,
                      !.angularImpulseSum = IF settings.warmStarting
                                            THEN numAdd(clamped1, lambda1) ELSE clamped1],
         a |-> applied.a,
         b |-> applied.b]

\* Vector3 operations, on triples of numbers
qAdd3(u, v) == <<numAdd(u[1], v[1]), numAdd(u[2], v[2]), numAdd(u[3], v[3])>>

qMulS3(v, s) == <<numMul(v[1], s), numMul(v[2], s), numMul(v[3], s)>>

qInverted3(v) == <<numNeg(v[1]), numNeg(v[2]), numNeg(v[3])>>

Matrix3(r0, r1, r2) ==
    [m00 |-> r0[1], m01 |-> r0[2], m02 |-> r0[3],
     m10 |-> r1[1], m11 |-> r1[2], m12 |-> r1[3],
     m20 |-> r2[1], m21 |-> r2[2], m22 |-> r2[3]]

\* a * d - b * c
det2(a, b, c, d) == numSub(numMul(a, d), numMul(b, c))

\* Matrix3.inverted: the adjugate over the determinant
inverted3(m) ==
    LET c00 == det2(m.m11, m.m12, m.m21, m.m22)
        c01 == det2(m.m10, m.m12, m.m20, m.m22)
        c02 == det2(m.m10, m.m11, m.m20, m.m21)
        det == numAdd(numSub(numMul(m.m00, c00), numMul(m.m01, c01)),
                      numMul(m.m02, c02))
    IN  Matrix3(<<numDiv(c00, det),
                  numDiv(numNeg(det2(m.m01, m.m02, m.m21, m.m22)), det),
                  numDiv(det2(m.m01, m.m02, m.m11, m.m12), det)>>,
                <<numDiv(numNeg(c01), det),
                  numDiv(det2(m.m00, m.m02, m.m20, m.m22), det),
                  numDiv(numNeg(det2(m.m00, m.m02, m.m10, m.m12)), det)>>,
                <<numDiv(c02, det),
                  numDiv(numNeg(det2(m.m00, m.m01, m.m20, m.m21)), det),
                  numDiv(det2(m.m00, m.m01, m.m10, m.m11), det)>>)

\* Matrix3.mulVector3
mulVector3(m, v) ==
    <<numAdd(numAdd(numMul(m.m00, v[1]), numMul(m.m01, v[2])), numMul(m.m02, v[3])),
      numAdd(numAdd(numMul(m.m10, v[1]), numMul(m.m11, v[2])), numMul(m.m12, v[3])),
      numAdd(numAdd(numMul(m.m20, v[1]), numMul(m.m21, v[2])), numMul(m.m22, v[3]))>>

\* new WeldJoint(bodyA, bodyB, anchor, frequency, dampingRatio, mass); the bodies
\* are not rotated
WeldJoint(a, b, anchor, omega, dampingRatio, mass, settings) ==
    LET soft == softness(jointMass(mass, b), omega, dampingRatio,
                         settings.fixedDeltaTime)
    IN  [kind |-> "Weld",
         impulseSum |-> <<Zero, Zero, Zero>>,
         initialAngle |-> Zero,
         localAnchorA |-> QV(subV(anchor, a.center)),
         localAnchorB |-> QV(subV(anchor, b.center)),
         beta |-> soft.beta,
         gamma |-> soft.gamma,
         ra |-> <<NaN, NaN>>, rb |-> <<NaN, NaN>>,
         m |-> Matrix3(<<NaN, NaN, NaN>>, <<NaN, NaN, NaN>>, <<NaN, NaN, NaN>>),
         bias |-> <<NaN, NaN, NaN>>]

\* WeldJoint.applyImpulse(lambda)
weldApplyImpulse(a, b, ra, rb, lambda) ==
    applyImpulse2(a, b, ra, rb, <<lambda[1], lambda[2]>>, lambda[3])

\* WeldJoint.prepare(delta): the joint and the two bodies after it
weldPrepare(joint, a, b, delta, settings) ==
    LET ra == joint.localAnchorA
        rb == joint.localAnchorB
        k01 == linearK(a, b, ra, rb)
        k02 == numSub(numMul(numNeg(a.inverseInertia), ra[2]),
                      numMul(b.inverseInertia, rb[2]))
        k12 == numAdd(numMul(a.inverseInertia, ra[1]), numMul(b.inverseInertia, rb[1]))
        k22 == numAdd(a.inverseInertia, b.inverseInertia)
        k == Matrix3(<<numAdd(k01.m00, joint.gamma), k01.m01, k02>>,
                     <<k01.m10, numAdd(k01.m11, joint.gamma), k12>>,
                     <<k02, k12, numAdd(k22, joint.gamma)>>)
        pa == qAddV(QV(a.center), ra)
        pb == qAddV(QV(b.center), rb)
        error01 == qSubV(pb, pa)
        error2 == numSub(Zero, joint.initialAngle)
        prepared == [joint EXCEPT
                        !.ra = ra, !.rb = rb,
                        !.m = inverted3(k),
                        !.bias = IF settings.positionCorrection
                                 THEN qMulS3(<<error01[1], error01[2], error2>>,
                                             numDiv(joint.beta, delta))
                                 ELSE <<Zero, Zero, Zero>>]
        warm == weldApplyImpulse(a, b, ra, rb, joint.impulseSum)
    IN  IF settings.warmStarting
        THEN [joint |-> prepared, a |-> warm.a, b |-> warm.b]
        ELSE [joint |-> prepared, a |-> a, b |-> b]

\* WeldJoint.solve: the joint and the two bodies after it
weldSolve(joint, a, b, settings) ==
    LET jv01 == relativeAnchorVelocity(a, b, joint.ra, joint.rb)
        jv2 == numSub(b.angularVelocity, a.angularVelocity)
        jv == <<jv01[1], jv01[2], jv2>>
        lambda == mulVector3(joint.m,
                             qInverted3(qAdd3(qAdd3(jv, joint.bias),
                                              qMulS3(joint.impulseSum, joint.gamma))))
        applied == weldApplyImpulse(a, b, joint.ra, joint.rb, lambda)
    IN  [joint |-> [joint EXCEPT
                      !.impulseSum = IF settings.warmStarting
                                     THEN qAdd3(joint.impulseSum, lambda)
                                     ELSE joint.impulseSum],
         a |-> applied.a,
         b |-> applied.b]

\* new GrabJoint(body, anchor, target, frequency, dampingRatio, mass); the body is
\* not rotated
GrabJoint(body, anchor, target, omega, dampingRatio, mass, settings) ==
    LET soft == softness(jointMass(mass, body), omega, dampingRatio, settings.dt)
    IN  [kind |-> "Grab",
         impulseSum |-> <<Zero, Zero>>,
         localAnchor |-> QV(subV(anchor, body.center)),
         target |-> QV(target),
         beta |-> soft.beta,
         gamma |-> soft.gamma,
         r |-> <<NaN, NaN>>,
         m |-> Matrix2(NaN, NaN, NaN, NaN),
         bias |-> <<NaN, NaN>>]

\* GrabJoint.applyImpulse(lambda): the body after it
grabApplyImpulse(body, r, lambda) ==
    [body EXCEPT
       !.linearVelocity = qAddV(body.linearVelocity, qMulS(lambda, body.inverseMass)),
       !.angularVelocity = numAdd(body.angularVelocity,
                                  numMul(body.inverseInertia, qCross(r, lambda)))]

\* GrabJoint.prepare: the joint and the body after it
grabPrepare(joint, body, settings) ==
    LET r == joint.localAnchor
        p == qAddV(QV(body.center), r)
        k == Matrix2(numAdd(numAdd(body.inverseMass,
                                   numMul(numMul(body.inverseInertia, r[2]), r[2])),
                            joint.gamma),
                     numMul(numMul(numNeg(body.inverseInertia), r[2]), r[1]),
                     numMul(numMul(numNeg(body.inverseInertia), r[1]), r[2]),
                     numAdd(numAdd(body.inverseMass,
                                   numMul(numMul(body.inverseInertia, r[1]), r[1])),
                            joint.gamma))
        error == qSubV(p, joint.target)
        prepared == [joint EXCEPT
                        !.r = r,
                        !.m = inverted2(k),
                        !.bias = IF settings.positionCorrection
                                 THEN qMulS(error, numMul(joint.beta, settings.inv_dt))
                                 ELSE <<Zero, Zero>>]
    IN  IF settings.warmStarting
        THEN [joint |-> prepared, body |-> grabApplyImpulse(body, r, joint.impulseSum)]
        ELSE [joint |-> prepared, body |-> body]

\* GrabJoint.solve: the joint and the body after it
grabSolve(joint, body, settings) ==
    LET jv == qAddV(body.linearVelocity, crossSV(body.angularVelocity, joint.r))
        lambda == mulVector2(joint.m,
                             qInverted(qAddV(qAddV(jv, joint.bias),
                                             qMulS(joint.impulseSum, joint.gamma))))
    IN  [joint |-> [joint EXCEPT
                      !.impulseSum = IF settings.warmStarting
                                     THEN qAddV(joint.impulseSum, lambda)
                                     ELSE joint.impulseSum],
         body |-> grabApplyImpulse(body, joint.r, lambda)]

\* ------------------------------------------------------------- state
VARIABLES
    pc,           \* position in detectCollision: "start", "gjk", "gjkReturned",
                  \* "epa", "epaReturn", "done"
    c1, c2,       \* the two colliders of the query
    simplex,      \* gjk's simplex
    k,            \* gjk's loop counter
    gjkCollide,   \* result.collide of gjk
    gjkWhy,       \* how gjk's loop ended: "origin", "separated", "duplicate", "cap"
    polytope,     \* epa's polytope
    closestEdge,  \* epa's closestEdge
    epaI,         \* epa's loop counter
    epaRan,       \* whether detectCollision called epa
    result        \* what detectCollision returned

detectVars == <<pc, c1, c2, simplex, k, gjkCollide, gjkWhy, polytope, closestEdge,
                epaI, epaRan, result>>

VARIABLES
    bodyA, bodyB, \* the two bodies of the manifold
    manifold,     \* the contact manifold's geometry
    solversN,     \* its normal constraints, one per contact point
    solversT,     \* its tangent constraints, one per contact point
    mpc,          \* position of the manifold's caller: "idle", "constructed",
                  \* "prepared", "solving", "returned"
    mi,           \* ContactManifold.solve's loop counter (from 1)
    ms,           \* position in the loop body: 1 or 2
    calls,        \* number of calls of ContactManifold.solve so far
    solveLog      \* the calls of ContactConstraintSolver.solve so far

contactVars == <<bodyA, bodyB, manifold, solversN, solversT, mpc, mi, ms, calls,
                 solveLog>>

VARIABLES
    jA, jB,       \* the two bodies of the joint (the same body for a GrabJoint)
    joint,        \* the joint's fields
    settings,     \* Settings: dt, inv_dt, positionCorrection, warmStarting
    jpc,          \* position of the joint's caller: "idle", "constructed",
                  \* "prepared", "solved"
    jCalls        \* number of prepare and solve calls so far

jointVars == <<jA, jB, joint, settings, jpc, jCalls>>

VARIABLES
    rigid,        \* a Collider's _mass, _invMass, _inertia, _invInertia, and for a
                  \* Polygon its vertices, area and _density
    setCalls,     \* number of setter calls on it so far
    query         \* a call of a function of util or of support: its name, its
                  \* arguments and what came out of it

utilVars == <<rigid, setCalls, query>>

VARIABLES
    ipc,          \* position of the page: "idle", "loaded" (before init()),
                  \* "listening" (after it)
    last_keys, curr_keys,   \* per key: "undefined", "true" or "false"
    mouses,       \* the slots pushed by init(), each {last_down, curr_down}
    mousePosition, mouseLastPosition, mouseAcceleration,
    paused,       \* engine.paused
    handled,      \* the last handler that ran and how it ended
    since         \* the events handled since the last update()

inputVars == <<ipc, last_keys, curr_keys, mouses, mousePosition, mouseLastPosition,
               mouseAcceleration, paused, handled, since>>

vars == <<detectVars, contactVars, jointVars, utilVars, inputVars>>

\* what detectCollision, a ContactManifold, a joint, a setter or a query leave alone
notDetectVars == <<contactVars, jointVars, utilVars, inputVars>>

notContactVars == <<detectVars, jointVars, utilVars, inputVars>>

notJointVars == <<detectVars, contactVars, utilVars, inputVars>>

notUtilVars == <<detectVars, contactVars, jointVars, inputVars>>

notInputVars == <<detectVars, contactVars, jointVars, utilVars>>

\* ------------------------------------------------------------- inputs
Positions == {<<x, y>> : x \in -MaxPos..MaxPos, y \in -MaxPos..MaxPos}

FirstColliders ==
    {Polygon(BoxVertices, ZeroVec, 0)}
    \cup {Polygon(TriangleVertices, ZeroVec, r) : r \in 0..1}

SecondColliders ==
    {Polygon(BoxVertices, p, 0) : p \in Positions}
    \cup {Polygon(TriangleVertices, p, r) : p \in Positions, r \in 0..1}

\* a convex 12-gon and a convex 16-gon, both symmetric about their centre
DodecagonVertices ==
    << <<8, 1>>, <<6, 5>>, <<3, 7>>, <<-1, 8>>, <<-5, 6>>, <<-7, 3>>,
       <<-8, -1>>, <<-6, -5>>, <<-3, -7>>, <<1, -8>>, <<5, -6>>, <<7, -3>> >>

HexadecagonVertices ==
    << <<7, 1>>, <<6, 4>>, <<4, 6>>, <<1, 7>>, <<-1, 7>>, <<-4, 6>>, <<-6, 4>>, <<-7, 1>>,
       <<-7, -1>>, <<-6, -4>>, <<-4, -6>>, <<-1, -7>>, <<1, -7>>, <<4, -6>>, <<6, -4>>,
       <<7, -1>> >>

\* the two many-sided polygons, one on top of the other or one step apart
RoundPairs ==
    {<<Polygon(DodecagonVertices, ZeroVec, 0), Polygon(HexadecagonVertices, <<x, y>>, 0)>> :
        x \in -1..1, y \in -1..1}

\* two circles of radius 2 with centres on one horizontal line
CirclePairs ==
    {<<Circle(2, ZeroVec), Circle(2, <<x, 0>>)>> : x \in (-2 * MaxPos)..(2 * MaxPos)}

ColliderPairs ==
    {<<a, b>> : a \in FirstColliders, b \in SecondColliders}
    \cup RoundPairs \cup CirclePairs

NoResult == [collide |-> FALSE]

StillBody == Body(ZeroVec, Zero, Zero, <<Zero, Zero>>, Zero, Zero, Zero, Zero)

DefaultSettings ==
    [frequency |-> <<60, 1>>, dt |-> <<1, 60>>, inv_dt |-> <<60, 1>>,
     fixedDeltaTime |-> <<1, 60>>, positionCorrection |-> TRUE, warmStarting |-> TRUE]

\* no joint in play
NoJoint ==
    /\ jA = StillBody
    /\ jB = StillBody
    /\ joint = [kind |-> "none"]
    /\ settings = DefaultSettings
    /\ jpc = "idle"
    /\ jCalls = 0

\* no collider under its setters
NoCollider ==
    /\ rigid = [mass |-> Zero, inverseMass |-> Zero, inertia |-> Zero,
                inverseInertia |-> Zero]
    /\ setCalls = 0

\* no function called
NoQuery == query = [fn |-> "none"]

\* the keys and the mouse buttons whose events are delivered
Keys == {"a", "Escape"}

\* input.ts before the page has loaded it
NoInput ==
    /\ ipc = "idle"
    /\ last_keys = [key \in Keys |-> "undefined"]
    /\ curr_keys = [key \in Keys |-> "undefined"]
    /\ mouses = <<>>
    /\ mousePosition = <<0, 0>>
    /\ mouseLastPosition = <<0, 0>>
    /\ mouseAcceleration = <<0, 0>>
    /\ paused = FALSE
    /\ handled = [event |-> "none", outcome |-> "none"]
    /\ since = [keydown |-> {}, keyup |-> {}, mousedown |-> {}, mouseup |-> {}]

\* no manifold in play
NoContact ==
    /\ bodyA = StillBody
    /\ bodyB = StillBody
    /\ manifold = ContactManifold(<<>>, Zero, <<0, 1>>)
    /\ solversN = <<>>
    /\ solversT = <<>>
    /\ mpc = "idle"
    /\ mi = 0
    /\ ms = 0
    /\ calls = 0
    /\ solveLog = <<>>

InitDetect ==
    /\ pc = "start"
    /\ \E pair \in ColliderPairs : c1 = pair[1] /\ c2 = pair[2]
    /\ simplex = EmptySimplex
    /\ k = 0
    /\ gjkCollide = FALSE
    /\ gjkWhy = "none"
    /\ polytope = Polytope(EmptySimplex)
    /\ closestEdge = NoEdge
    /\ epaI = 0
    /\ epaRan = FALSE
    /\ result = NoResult
    /\ NoContact
    /\ NoJoint
    /\ NoCollider
    /\ NoQuery
    /\ NoInput

\* ------------------------------------------------------------- actions
\* gjk up to its loop: the first support point along (1, 0)
\* a throw of support leaves gjk and detectCollision at once
GjkStart ==
    /\ pc = "start"
    /\ IF csoSupportThrows(c1, c2, <<1, 0>>)
       THEN /\ pc' = "thrown"
            /\ UNCHANGED <<simplex, k, gjkCollide>>
       ELSE /\ simplex' = gjkFirstSimplex(c1, c2)
            /\ k' = 0
            /\ gjkCollide' = FALSE
            /\ pc' = "gjk"
    /\ UNCHANGED <<c1, c2, gjkWhy, polytope, closestEdge, epaI, epaRan, result>>
    /\ UNCHANGED notDetectVars

\* one test of gjk's loop condition and, when it holds, one pass of the body
GjkLoop ==
    /\ pc = "gjk"
    /\ IF k < MAX_ITERATION
       THEN LET pass == gjkPass(c1, c2, simplex)
            IN  /\ simplex' = pass.simplex
                /\ gjkCollide' = pass.collide
                /\ IF pass.brk
                   THEN pc' = "gjkReturned" /\ gjkWhy' = pass.why /\ k' = k
                   ELSE pc' = "gjk" /\ gjkWhy' = gjkWhy /\ k' = k + 1
       ELSE /\ pc' = "gjkReturned"
            /\ gjkWhy' = "cap"
            /\ UNCHANGED <<simplex, gjkCollide, k>>
    /\ UNCHANGED <<c1, c2, polytope, closestEdge, epaI, epaRan, result>>
    /\ UNCHANGED notDetectVars

\* runsEpa that trusts gjk's collide flag instead of the simplex's size
runsEpaOnCollide(gjkSimplex, collide) == collide

\* detectCollision after gjk returned: the test of the simplex's size
runsEpa(gjkSimplex, collide) == Len(gjkSimplex.vertices) = 3

DetectDispatch ==
    /\ pc = "gjkReturned"
    /\ IF runsEpa(simplex, gjkCollide)
       THEN /\ polytope' = Polytope(simplex)
            /\ closestEdge' = NoEdge
            /\ epaI' = 0
            /\ epaRan' = TRUE
            /\ pc' = "epa"
            /\ UNCHANGED result
       ELSE /\ result' = [collide |-> FALSE]
            /\ pc' = "done"
            /\ UNCHANGED <<polytope, closestEdge, epaI, epaRan>>
    /\ UNCHANGED <<c1, c2, simplex, k, gjkCollide, gjkWhy>>
    /\ UNCHANGED notDetectVars

\* one test of epa's loop condition and, when it holds, one pass of the body
EpaLoop ==
    /\ pc = "epa"
    /\ IF epaI < MAX_ITERATION
       THEN LET pass == epaPass(c1, c2, polytope)
            IN  /\ polytope' = pass.polytope
                /\ closestEdge' = pass.closestEdge
                /\ IF pass.brk
                   THEN pc' = "epaReturn" /\ epaI' = epaI
                   ELSE pc' = "epa" /\ epaI' = epaI + 1
       ELSE /\ pc' = "epaReturn"
            /\ UNCHANGED <<polytope, closestEdge, epaI>>
    /\ UNCHANGED <<c1, c2, simplex, k, gjkCollide, gjkWhy, epaRan, result>>
    /\ UNCHANGED notDetectVars

\* epa's contact points and detectCollision's return of them
EpaReturn ==
    /\ pc = "epaReturn"
    /\ LET r == epaResult(polytope, closestEdge)
       IN  result' = [collide |-> TRUE,
                      penetrationDepth |-> [num |-> r.depthNum, d2 |-> r.normalLen2],
                      collisionNormal |-> [dir |-> r.normal, d2 |-> r.normalLen2],
                      uv |-> r.uv,
                      contactPonintA |-> r.contactPointA,
                      contactPonintB |-> r.contactPointB]
    /\ pc' = "done"
    /\ UNCHANGED <<c1, c2, simplex, k, gjkCollide, gjkWhy, polytope, closestEdge,
                   epaI, epaRan>>
    /\ UNCHANGED notDetectVars

NextDetect == GjkStart \/ GjkLoop \/ DetectDispatch \/ EpaLoop \/ EpaReturn

SpecDetect == InitDetect /\ [][NextDetect]_vars

\* ------------------------------------------------------------- contact inputs
\* calls of ContactManifold.solve in one run
MaxSolves == 2

One == <<1, 1>>

Half == <<1, 2>>

\* the timesteps prepare is called with
Deltas == {<<1, 60>>, <<1, 30>>}

\* the first body: at rest below the contact, immovable (mass 0) or of mass 1
BodiesA ==
    {Body(<<0, -1>>, m, m, <<Zero, Zero>>, Zero, One, One, One) : m \in {Zero, One}}

\* the second body: above the contact, immovable or of mass 1, at rest, falling,
\* sliding, leaving fast or falling fast, spinning or not
BodiesB ==
    {Body(<<0, 1>>, m, m, QV(lv), av, f, One, Half) :
        m \in {Zero, One},
        lv \in {<<0, 0>>, <<0, -2>>, <<1, -1>>, <<0, 12>>, <<0, -12>>},
        av \in {Zero, One},
        f \in {Zero, Half, One}}

\* one contact point under the centres, or two at the corners of a box's face;
\* touching, or penetrating beyond the slop
Manifolds ==
    {ContactManifold(pts, depth, <<0, 1>>) :
        pts \in {<< <<0, 0>> >>, << <<-1, 0>>, <<1, 0>> >>},
        depth \in {Zero, One, <<3, 2>>}}

\* detectCollision is not running
NoDetect ==
    /\ pc = "idle"
    /\ c1 = Circle(2, ZeroVec)
    /\ c2 = Circle(2, ZeroVec)
    /\ simplex = EmptySimplex
    /\ k = 0
    /\ gjkCollide = FALSE
    /\ gjkWhy = "none"
    /\ polytope = Polytope(EmptySimplex)
    /\ closestEdge = NoEdge
    /\ epaI = 0
    /\ epaRan = FALSE
    /\ result = NoResult

\* a manifold right after its constructor
InitContact ==
    /\ NoDetect
    /\ NoJoint
    /\ NoCollider
    /\ NoQuery
    /\ NoInput
    /\ bodyA \in BodiesA
    /\ bodyB \in BodiesB
    /\ manifold \in Manifolds
    /\ solversN = [i \in 1..numContacts(manifold) |->
                     ContactConstraintSolver(bodyA, bodyB, manifold.contactPoints[i])]
    /\ solversT = [i \in 1..numContacts(manifold) |->
                     ContactConstraintSolver(bodyA, bodyB, manifold.contactPoints[i])]
    /\ mpc = "constructed"
    /\ mi = 0
    /\ ms = 0
    /\ calls = 0
    /\ solveLog = <<>>

\* ------------------------------------------------------------- contact actions
\* ContactManifold.prepare(delta)
Prepare ==
    /\ mpc \in {"constructed", "prepared", "returned"}
    /\ \E delta \in Deltas :
        /\ solversN' = [i \in 1..numContacts(manifold) |->
                          init(solversN[i], bodyA, bodyB, manifold,
                               manifold.contactNormal, "Normal", delta)]
        /\ solversT' = [i \in 1..numContacts(manifold) |->
                          init(solversT[i], bodyA, bodyB, manifold,
                               manifold.contactTangent, "Tangent", delta)]
    /\ mpc' = "prepared"
    /\ UNCHANGED <<bodyA, bodyB, manifold, mi, ms, calls, solveLog>>
    /\ UNCHANGED notContactVars

\* ContactManifold.solve is called: its loop starts at the first contact point
ManifoldSolve ==
    /\ mpc \in {"prepared", "returned"}
    /\ calls < MaxSolves
    /\ calls' = calls + 1
    /\ mi' = 1
    /\ ms' = 1
    /\ mpc' = IF numContacts(manifold) = 0 THEN "returned" ELSE "solving"
    /\ UNCHANGED <<bodyA, bodyB, manifold, solversN, solversT, solveLog>>
    /\ UNCHANGED notContactVars

\* the loop of ContactManifold.solve moves on after one solve call
advance ==
    IF ms < Len(solveOrder)
    THEN mi' = mi /\ ms' = ms + 1 /\ mpc' = "solving"
    ELSE IF mi < numContacts(manifold)
    THEN mi' = mi + 1 /\ ms' = 1 /\ mpc' = "solving"
    ELSE mi' = mi /\ ms' = ms /\ mpc' = "returned"

\* this.solversN[i].solve()
SolveNormal ==
    /\ mpc = "solving"
    /\ solveOrder[ms] = "Normal"
    /\ LET r == solve(solversN[mi], bodyA, bodyB, solversN[mi])
       IN  /\ solversN' = [solversN EXCEPT ![mi] = r.solver]
           /\ bodyA' = r.a
           /\ bodyB' = r.b
           /\ solveLog' = Append(solveLog,
                                 [call |-> calls, type |-> "Normal", index |-> mi,
                                  impulseSum |-> r.solver.impulseSum,
                                  lambda |-> r.lambda,
                                  friend |-> Zero])
    /\ advance
    /\ UNCHANGED <<manifold, solversT, calls>>
    /\ UNCHANGED notContactVars

\* this.solversT[i].solve(this.solversN[i])
SolveTangent ==
    /\ mpc = "solving"
    /\ solveOrder[ms] = "Tangent"
    /\ LET r == solve(solversT[mi], bodyA, bodyB, solversN[mi])
       IN  /\ solversT' = [solversT EXCEPT ![mi] = r.solver]
           /\ bodyA' = r.a
           /\ bodyB' = r.b
           /\ solveLog' = Append(solveLog,
                                 [call |-> calls, type |-> "Tangent", index |-> mi,
                                  impulseSum |-> r.solver.impulseSum,
                                  lambda |-> r.lambda,
                                  friend |-> solversN[mi].impulseSum])
    /\ advance
    /\ UNCHANGED <<manifold, solversN, calls>>
    /\ UNCHANGED notContactVars

NextContact == Prepare \/ ManifoldSolve \/ SolveNormal \/ SolveTangent

SpecContact == InitContact /\ [][NextContact]_vars

\* ------------------------------------------------------------- joint inputs
\* prepare and solve calls on a joint in one run
MaxJointCalls == 3

\* Settings with a timestep of 1 and both flags free; fixedDeltaTime is the name
\* WeldJoint reads the fixed timestep by
SettingsChoices ==
    {[frequency |-> One, dt |-> One, inv_dt |-> One, fixedDeltaTime |-> One,
      positionCorrection |-> pos, warmStarting |-> warm] :
        pos \in BOOLEAN, warm \in BOOLEAN}

\* a joint's first body: immovable or of mass 1 or 2, at rest at the origin
JointBodiesA ==
    {Body(<<0, 0>>, m, m, <<Zero, Zero>>, Zero, One, One, One) :
        m \in {Zero, One, <<2, 1>>}}

\* a joint's second body: immovable or of mass 1, at rest or moving along x,
\* spinning or not
JointBodiesB(center) ==
    {Body(center, m, m, QV(lv), av, One, One, One) :
        m \in {Zero, One},
        lv \in {<<0, 0>>, <<-6, 0>>},
        av \in {Zero, <<2, 1>>}}

\* motors on a shared pivot, with small or large force and torque limits, with or
\* without damping, their mass defaulted (-1) or given, holding the bodies
\* together as they are or 2 apart and turned by 1
MotorJoints(a, b, s) ==
    {[MotorJoint(a, b, b.center, maxF, maxF, One, zeta, mass, s)
        EXCEPT !.linearOffset = QV(off[1]), !.angularOffset = off[2]] :
        maxF \in {One, <<100, 1>>},
        zeta \in {Zero, One},
        mass \in {<<-1, 1>>, One},
        off \in {<< <<0, 0>>, Zero>>, << <<2, 0>>, One>>}}

\* welds of two bodies 2 apart, anchored between them, with or without damping,
\* their mass defaulted (-1) or given
WeldJoints(a, b, s) ==
    {WeldJoint(a, b, <<1, 0>>, One, zeta, mass, s) :
        zeta \in {Zero, One}, mass \in {<<-1, 1>>, One}}

\* grabs of a body by a point beside or above its centre, the target there or away
GrabJoints(body, s) ==
    {GrabJoint(body, anchor, target, One, zeta, mass, s) :
        anchor \in {<<1, 0>>, <<0, 1>>},
        target \in {<<1, 0>>, <<3, 0>>},
        zeta \in {Zero, One},
        mass \in {<<-1, 1>>, One}}

\* the timesteps WeldJoint.prepare is called with
JointDeltas == {One, <<1, 2>>}

\* no manifold and no detectCollision
NoDetectNoContact ==
    /\ NoDetect
    /\ NoContact

\* a joint right after its constructor
InitJoint ==
    /\ NoDetectNoContact
    /\ NoCollider
    /\ NoQuery
    /\ NoInput
    /\ settings \in SettingsChoices
    /\ \/ /\ jA \in JointBodiesA
          /\ jB \in JointBodiesB(<<0, 0>>)
          /\ joint \in MotorJoints(jA, jB, settings)
       \/ /\ jA \in JointBodiesA
          /\ jB \in JointBodiesB(<<2, 0>>)
          /\ joint \in WeldJoints(jA, jB, settings)
       \/ /\ jB \in JointBodiesB(<<0, 0>>)
          /\ jA = jB
          /\ joint \in GrabJoints(jB, settings)
    /\ jpc = "constructed"
    /\ jCalls = 0

\* ------------------------------------------------------------- joint actions
\* MotorJoint.prepare()
MotorPrepare ==
    /\ joint.kind = "Motor"
    /\ jpc \in {"constructed", "prepared", "solved"}
    /\ jCalls < MaxJointCalls
    /\ LET r == motorPrepare(joint, jA, jB, settings)
       IN  joint' = r.joint /\ jA' = r.a /\ jB' = r.b
    /\ jpc' = "prepared"
    /\ jCalls' = jCalls + 1
    /\ UNCHANGED settings
    /\ UNCHANGED notJointVars

\* MotorJoint.solve()
MotorSolve ==
    /\ joint.kind = "Motor"
    /\ jpc \in {"prepared", "solved"}
    /\ jCalls < MaxJointCalls
    /\ LET r == motorSolve(joint, jA, jB, settings)
       IN  joint' = r.joint /\ jA' = r.a /\ jB' = r.b
    /\ jpc' = "solved"
    /\ jCalls' = jCalls + 1
    /\ UNCHANGED settings
    /\ UNCHANGED notJointVars

\* WeldJoint.prepare(delta)
WeldPrepare ==
    /\ joint.kind = "Weld"
    /\ jpc \in {"constructed", "prepared", "solved"}
    /\ jCalls < MaxJointCalls
    /\ \E delta \in JointDeltas :
         LET r == weldPrepare(joint, jA, jB, delta, settings)
         IN  joint' = r.joint /\ jA' = r.a /\ jB' = r.b
    /\ jpc' = "prepared"
    /\ jCalls' = jCalls + 1
    /\ UNCHANGED settings
    /\ UNCHANGED notJointVars

\* WeldJoint.solve()
WeldSolve ==
    /\ joint.kind = "Weld"
    /\ jpc \in {"prepared", "solved"}
    /\ jCalls < MaxJointCalls
    /\ LET r == weldSolve(joint, jA, jB, settings)
       IN  joint' = r.joint /\ jA' = r.a /\ jB' = r.b
    /\ jpc' = "solved"
    /\ jCalls' = jCalls + 1
    /\ UNCHANGED settings
    /\ UNCHANGED notJointVars

\* GrabJoint.prepare(): bodyA and bodyB are the one grabbed body
GrabPrepare ==
    /\ joint.kind = "Grab"
    /\ jpc \in {"constructed", "prepared", "solved"}
    /\ jCalls < MaxJointCalls
    /\ LET r == grabPrepare(joint, jA, settings)
       IN  joint' = r.joint /\ jA' = r.body /\ jB' = r.body
    /\ jpc' = "prepared"
    /\ jCalls' = jCalls + 1
    /\ UNCHANGED settings
    /\ UNCHANGED notJointVars

\* GrabJoint.solve()
GrabSolve ==
    /\ joint.kind = "Grab"
    /\ jpc \in {"prepared", "solved"}
    /\ jCalls < MaxJointCalls
    /\ LET r == grabSolve(joint, jA, settings)
       IN  joint' = r.joint /\ jA' = r.body /\ jB' = r.body
    /\ jpc' = "solved"
    /\ jCalls' = jCalls + 1
    /\ UNCHANGED settings
    /\ UNCHANGED notJointVars

NextJoint ==
    MotorPrepare \/ MotorSolve \/ WeldPrepare \/ WeldSolve \/ GrabPrepare \/ GrabSolve

SpecJoint == InitJoint /\ [][NextJoint]_vars

\* ------------------------------------------------------------- joints and Settings
\* the values the frequency slider sends: the low end of frequencyRange and
\* twice that
Frequencies == {<<10, 1>>, <<20, 1>>}

\* updateSetting("frequency", content)
updateSetting(s, content) ==
    [s EXCEPT !.frequency = content, !.dt = numInv(content), !.inv_dt = content]

\* a motor or a grab joint right after its constructor, the frequency slider at
\* its low end and either flag set or not; its omega is 1, its damping ratio 1 and
\* its mass the body's
InitSettings ==
    /\ NoDetectNoContact
    /\ NoCollider
    /\ NoQuery
    /\ NoInput
    /\ settings \in {[updateSetting(DefaultSettings, <<10, 1>>)
                          EXCEPT !.positionCorrection = pos, !.warmStarting = warm] :
                        pos \in BOOLEAN, warm \in BOOLEAN}
    /\ jB \in JointBodiesB(<<0, 0>>)
    /\ \/ /\ jA \in JointBodiesA
          /\ joint = MotorJoint(jA, jB, jB.center, One, One, One, One, <<-1, 1>>,
                                settings)
       \/ /\ jA = jB
          /\ joint \in {GrabJoint(jB, <<1, 0>>, target, One, One, <<-1, 1>>, settings) :
                          target \in {<<1, 0>>, <<3, 0>>}}
    /\ jpc = "constructed"
    /\ jCalls = 0

\* the frequency slider is moved between two steps of the world
UpdateFrequency ==
    /\ jpc \in {"constructed", "solved"}
    /\ \E f \in Frequencies :
          /\ f # settings.frequency
          /\ settings' = updateSetting(settings, f)
    /\ UNCHANGED <<jA, jB, joint, jpc, jCalls>>
    /\ UNCHANGED notJointVars

NextSettings ==
    MotorPrepare \/ MotorSolve \/ GrabPrepare \/ GrabSolve \/ UpdateFrequency

SpecSettings == InitSettings /\ [][NextSettings]_vars

\* ------------------------------------------------------------- contacts and joints
\* a run of one contact manifold with a second body that has friction and does
\* not spin, or of one motor or grab joint
InitSolvers ==
    \/ InitContact /\ bodyB.friction = Half /\ bodyB.angularVelocity = Zero
    \/ InitJoint /\ joint.kind \in {"Motor", "Grab"}

NextSolvers ==
    NextContact \/ MotorPrepare \/ MotorSolve \/ GrabPrepare \/ GrabSolve

SpecSolvers == InitSolvers /\ [][NextSolvers]_vars

\* ------------------------------------------------------------- the setters of Collider
MaxSetCalls == 3

\* the arguments of the setters: negative, zero, fractions, whole numbers, the
\* largest number and, above it, Infinity
SetterArguments ==
    {<<-1, 0>>, <<-1, 1>>, Zero, <<1, 2>>, One, <<2, 1>>, <<3, 1>>, MAX_VALUE, Infinity}

\* the mass and inertia a constructor sets: those of a shape, or of the ground
ConstructorArguments == {One, <<2, 1>>, MAX_VALUE}

\* a collider after the constructor of its shape has set its mass and inertia
InitCollider ==
    /\ NoDetectNoContact
    /\ NoJoint
    /\ NoQuery
    /\ NoInput
    /\ \E m \in ConstructorArguments, i \in ConstructorArguments :
          rigid = [mass |-> setMass(m).mass,
                   inverseMass |-> setMass(m).inverseMass,
                   inertia |-> setInertia(i).inertia,
                   inverseInertia |-> setInertia(i).inverseInertia]
    /\ setCalls = 0

\* collider.mass = m
SetMass ==
    /\ setCalls < MaxSetCalls
    /\ \E m \in SetterArguments :
          rigid' = [rigid EXCEPT !.mass = setMass(m).mass,
                                 !.inverseMass = setMass(m).inverseMass]
    /\ setCalls' = setCalls + 1
    /\ UNCHANGED query
    /\ UNCHANGED notUtilVars

\* collider.inertia = i
SetInertia ==
    /\ setCalls < MaxSetCalls
    /\ \E i \in SetterArguments :
          rigid' = [rigid EXCEPT !.inertia = setInertia(i).inertia,
                                 !.inverseInertia = setInertia(i).inverseInertia]
    /\ setCalls' = setCalls + 1
    /\ UNCHANGED query
    /\ UNCHANGED notUtilVars

NextCollider == SetMass \/ SetInertia

SpecCollider == InitCollider /\ [][NextCollider]_vars

\* ------------------------------------------------------------- the setters of Polygon
\* the vertex lists of the polygons, centred on their centre of mass: a 6 by 8,
\* an 8 by 6 and a 10 by 24 rectangle, whose vertices lie at a whole distance
\* from the centre
PolygonShapes ==
    {<< <<-3, -4>>, <<-3, 4>>, <<3, 4>>, <<3, -4>> >>,
     << <<-4, -3>>, <<-4, 3>>, <<4, 3>>, <<4, -3>> >>,
     << <<-5, -12>>, <<-5, 12>>, <<5, 12>>, <<5, -12>> >>}

\* the masses a polygon is constructed with
PolygonMasses == {One, <<2, 1>>}

\* the arguments of the mass and density setters: negative, zero, a fraction,
\* whole numbers
PolygonArguments == {<<-2, 1>>, <<-1, 1>>, Zero, Half, One, <<2, 1>>, <<3, 1>>}

\* the vertex after vertices[i], 1-based: vertices[(i + 1) % count]
nextVertex(vertices, i) == vertices[(i % Len(vertices)) + 1]

\* sum of the cross products of the edges from edge i on
RECURSIVE crossSum(_, _)
crossSum(vertices, i) ==
    IF i > Len(vertices) THEN 0
    ELSE cross(vertices[i], nextVertex(vertices, i)) + crossSum(vertices, i + 1)

\* the area the constructor of Polygon stores: Math.abs(area) / 2.0
polygonArea(vertices) == Num(Abs(crossSum(vertices, 1)), 2)

\* Math.sin(Math.acos(c) / 2) squared, by the half-angle formula
sinSquaredOfHalfAcos(c) == numDiv(numSub(One, c), <<2, 1>>)

\* the loop of calculateConvexPolygonInertia from edge i on
RECURSIVE inertiaSum(_, _, _, _)
inertiaSum(vertices, mass, area, i) ==
    IF i > Len(vertices) THEN Zero
    ELSE LET v1 == vertices[i]
             v2 == nextVertex(vertices, i)
             l1 == qLength(QV(v1))
             l2 == qLength(QV(v2))
             s2 == sinSquaredOfHalfAcos(numDiv(Num(dot(v1, v2), 1), numMul(l1, l2)))
             partialMass == numMul(numDiv(Num(Abs(cross(v1, v2)), 2), area), mass)
         IN  numAdd(numMul(numMul(numMul(numMul(Half, partialMass), l1), l2),
                           numSub(One, numMul(<<2, 3>>, s2))),
                    inertiaSum(vertices, mass, area, i + 1))

\* Util.calculateConvexPolygonInertia(vertices, mass, area) for an area above 0
calculateConvexPolygonInertia(vertices, mass, area) ==
    inertiaSum(vertices, mass, area, 1)

\* polygon.mass = mass
polygonSetMass(p, mass) ==
    LET stored == setMass(mass)
        i == setInertia(calculateConvexPolygonInertia(p.vertices, stored.mass, p.area))
    IN  [p EXCEPT !.mass = stored.mass,
                  !.inverseMass = stored.inverseMass,
                  !.inertia = i.inertia,
                  !.inverseInertia = i.inverseInertia,
                  !.density = numDiv(mass, p.area)]

\* polygon.density = density
polygonSetDensity(p, density) ==
    LET stored == setMass(numMul(density, p.area))
        i == setInertia(calculateConvexPolygonInertia(p.vertices, stored.mass, p.area))
    IN  [p EXCEPT !.mass = stored.mass,
                  !.inverseMass = stored.inverseMass,
                  !.inertia = i.inertia,
                  !.inverseInertia = i.inverseInertia,
                  !.density = density]

\* new Polygon(vertices) of a body whose mass is m
NewPolygon(vertices, m) ==
    LET area == polygonArea(vertices)
        stored == setMass(m)
        i == setInertia(calculateConvexPolygonInertia(vertices, stored.mass, area))
    IN  [vertices |-> vertices,
         area |-> area,
         mass |-> stored.mass,
         inverseMass |-> stored.inverseMass,
         inertia |-> i.inertia,
         inverseInertia |-> i.inverseInertia,
         density |-> numDiv(stored.mass, area)]

\* a polygon after its constructor
InitPolygon ==
    /\ NoDetectNoContact
    /\ NoJoint
    /\ NoQuery
    /\ NoInput
    /\ rigid \in {NewPolygon(vertices, m) : vertices \in PolygonShapes, m \in PolygonMasses}
    /\ setCalls = 0

PolygonSetMass ==
    /\ setCalls < MaxSetCalls
    /\ \E mass \in PolygonArguments : rigid' = polygonSetMass(rigid, mass)
    /\ setCalls' = setCalls + 1
    /\ UNCHANGED query
    /\ UNCHANGED notUtilVars

PolygonSetDensity ==
    /\ setCalls < MaxSetCalls
    /\ \E density \in PolygonArguments : rigid' = polygonSetDensity(rigid, density)
    /\ setCalls' = setCalls + 1
    /\ UNCHANGED query
    /\ UNCHANGED notUtilVars

NextPolygon == PolygonSetMass \/ PolygonSetDensity

SpecPolygon == InitPolygon /\ [][NextPolygon]_vars

\* ------------------------------------------------------------- calls of checkInside and support
MaxQuery == 3

\* the vertices in the opposite winding order
Reversed(vs) == [i \in 1..Len(vs) |-> vs[Len(vs) + 1 - i]]

\* polygons of both winding orders, at the origin or displaced and turned
QueryPolygons ==
    {Polygon(vs, ZeroVec, 0) :
        vs \in {BoxVertices, Reversed(BoxVertices), TriangleVertices,
                Reversed(TriangleVertices)}}
    \cup {Polygon(BoxVertices, <<1, 0>>, 1), Polygon(TriangleVertices, <<0, -1>>, 1)}

QueryPoints == {<<x, y>> : x \in -MaxQuery..MaxQuery, y \in -MaxQuery..MaxQuery}

\* a call about to be made: checkInside(body, p) or support(body, dir)
Queries ==
    {[fn |-> "checkInside", body |-> b, arg |-> pt, done |-> FALSE, threw |-> FALSE,
      out |-> FALSE] :
        b \in QueryPolygons \cup {Circle(2, ZeroVec), Circle(1, <<1, 1>>), Other(ZeroVec)},
        pt \in QueryPoints}
    \cup
    {[fn |-> "support", body |-> b, arg |-> dir, done |-> FALSE, threw |-> FALSE,
      out |-> ZeroVec] :
        b \in QueryPolygons \cup {Other(ZeroVec)},
        dir \in QueryPoints}

InitQuery ==
    /\ NoDetectNoContact
    /\ NoJoint
    /\ NoCollider
    /\ NoInput
    /\ query \in Queries

\* checkInside(body, p) is called and returns or throws
CheckInside ==
    /\ query.fn = "checkInside"
    /\ ~query.done
    /\ LET r == checkInside(query.body, query.arg)
       IN  query' = [query EXCEPT !.done = TRUE, !.threw = r.threw, !.out = r.inside]
    /\ UNCHANGED <<rigid, setCalls>>
    /\ UNCHANGED notUtilVars

\* support(body, dir) is called and returns or throws
Support ==
    /\ query.fn = "support"
    /\ ~query.done
    /\ LET r == support(query.body, query.arg)
       IN  query' = [query EXCEPT !.done = TRUE, !.threw = (r = Thrown),
                                  !.out = IF r = Thrown THEN ZeroVec ELSE r]
    /\ UNCHANGED <<rigid, setCalls>>
    /\ UNCHANGED notUtilVars

NextQuery == CheckInside \/ Support

SpecQuery == InitQuery /\ [][NextQuery]_vars

\* ------------------------------------------------------------- bodies of an unsupported shape
\* pairs for detectCollision with a body that is neither Circle nor Polygon on
\* either side or on both, and pairs of boxes
PairsWithOther ==
    {<<a, b>> :
        a \in {Polygon(BoxVertices, ZeroVec, 0), Other(ZeroVec)},
        b \in {Polygon(BoxVertices, <<1, 0>>, 0), Polygon(BoxVertices, <<3, 0>>, 0),
               Other(<<1, 0>>), Other(<<3, 0>>)}}
    \cup {<<Circle(2, ZeroVec), Other(<<1, 0>>)>>, <<Other(ZeroVec), Circle(2, <<1, 0>>)>>}

\* calls of checkInside and support at two points
QueriesWithOther == {q \in Queries : q.arg \in {<<0, 0>>, <<1, 0>>}}

\* a caller that runs detectCollision on a pair and one call of checkInside or of
\* support on a body
InitThrow ==
    /\ pc = "start"
    /\ \E pair \in PairsWithOther : c1 = pair[1] /\ c2 = pair[2]
    /\ simplex = EmptySimplex
    /\ k = 0
    /\ gjkCollide = FALSE
    /\ gjkWhy = "none"
    /\ polytope = Polytope(EmptySimplex)
    /\ closestEdge = NoEdge
    /\ epaI = 0
    /\ epaRan = FALSE
    /\ result = NoResult
    /\ NoContact
    /\ NoJoint
    /\ NoCollider
    /\ NoInput
    /\ query \in QueriesWithOther

NextThrow == NextDetect \/ NextQuery

SpecThrow == InitThrow /\ [][NextThrow]_vars

\* ------------------------------------------------------------- input.ts
maxMouseButtons == 5

\* the button numbers of the mouse events delivered: the main button, the
\* number equal to maxMouseButtons and one above it
EventButtons == {0, maxMouseButtons, maxMouseButtons + 1}

\* where mousemove reports the pointer, relative to the canvas
MousePoints == {<<0, 0>>, <<3, 4>>}

\* a value of a key table in a condition
truthy(v) == v = "true"

\* Object.assign left out of update(): last_keys keeps its old values
assignNothing(target, source) == target

\* Object.assign(target, source): the own properties of source overwrite target's
assign(target, source) ==
    [key \in DOMAIN target |->
        IF source[key] # "undefined" THEN source[key] ELSE target[key]]

\* mouses[button] exists
hasSlot(button) == button + 1 \in DOMAIN mouses

isMouseDown(button) ==
    mouses[button + 1].curr_down /\ ~mouses[button + 1].last_down

isMouseUp(button) ==
    ~mouses[button + 1].curr_down /\ mouses[button + 1].last_down

\* curr_keys[key] && !last_keys[key]: the left operand when it is falsy
isKeyDown(key) ==
    IF ~truthy(curr_keys[key]) THEN curr_keys[key]
    ELSE IF truthy(last_keys[key]) THEN "false" ELSE "true"

\* !curr_keys[key] && last_keys[key]
isKeyUp(key) ==
    IF truthy(curr_keys[key]) THEN "false" ELSE last_keys[key]

\* the page has loaded the module; init() has not run
InitInput ==
    /\ NoDetectNoContact
    /\ NoJoint
    /\ NoCollider
    /\ NoQuery
    /\ ipc = "loaded"
    /\ last_keys = [key \in Keys |-> "undefined"]
    /\ curr_keys = [key \in Keys |-> "undefined"]
    /\ mouses = <<>>
    /\ mousePosition = <<0, 0>>
    /\ mouseLastPosition = <<0, 0>>
    /\ mouseAcceleration = <<0, 0>>
    /\ paused = FALSE
    /\ handled = [event |-> "none", outcome |-> "none"]
    /\ since = [keydown |-> {}, keyup |-> {}, mousedown |-> {}, mouseup |-> {}]

\* init(engine): the listeners are registered and the slots pushed
InputInit ==
    /\ ipc = "loaded"
    /\ ipc' = "listening"
    /\ mouses' = mouses \o [i \in 1..maxMouseButtons |->
                              [last_down |-> FALSE, curr_down |-> FALSE]]
    /\ handled' = [event |-> "init", outcome |-> "returned"]
    /\ UNCHANGED <<last_keys, curr_keys, mousePosition, mouseLastPosition,
                   mouseAcceleration, paused, since>>
    /\ UNCHANGED notInputVars

\* the mousedown listener
MouseDown ==
    /\ ipc = "listening"
    /\ \E button \in EventButtons :
          IF button > maxMouseButtons
          THEN /\ handled' = [event |-> "mousedown", outcome |-> "ignored"]
               /\ UNCHANGED <<mouses, since>>
          ELSE IF ~hasSlot(button)
          THEN /\ handled' = [event |-> "mousedown", outcome |-> "TypeError"]
               /\ UNCHANGED <<mouses, since>>
          ELSE /\ mouses' = [mouses EXCEPT ![button + 1].curr_down = TRUE]
               /\ handled' = [event |-> "mousedown", outcome |-> "written"]
               /\ since' = [since EXCEPT !.mousedown = @ \cup {button}]
    /\ UNCHANGED <<ipc, last_keys, curr_keys, mousePosition, mouseLastPosition,
                   mouseAcceleration, paused>>
    /\ UNCHANGED notInputVars

\* the mouseup listener
MouseUp ==
    /\ ipc = "listening"
    /\ \E button \in EventButtons :
          IF button > maxMouseButtons
          THEN /\ handled' = [event |-> "mouseup", outcome |-> "ignored"]
               /\ UNCHANGED <<mouses, since>>
          ELSE IF ~hasSlot(button)
          THEN /\ handled' = [event |-> "mouseup", outcome |-> "TypeError"]
               /\ UNCHANGED <<mouses, since>>
          ELSE /\ mouses' = [mouses EXCEPT ![button + 1].curr_down = FALSE]
               /\ handled' = [event |-> "mouseup", outcome |-> "written"]
               /\ since' = [since EXCEPT !.mouseup = @ \cup {button}]
    /\ UNCHANGED <<ipc, last_keys, curr_keys, mousePosition, mouseLastPosition,
                   mouseAcceleration, paused>>
    /\ UNCHANGED notInputVars

\* the keydown listener
KeyDown ==
    /\ ipc = "listening"
    /\ \E key \in Keys :
          /\ paused' = IF key = "Escape" THEN ~paused ELSE paused
          /\ curr_keys' = [curr_keys EXCEPT ![key] = "true"]
          /\ since' = [since EXCEPT !.keydown = @ \cup {key}]
    /\ handled' = [event |-> "keydown", outcome |-> "written"]
    /\ UNCHANGED <<ipc, last_keys, mouses, mousePosition, mouseLastPosition,
                   mouseAcceleration>>
    /\ UNCHANGED notInputVars

\* the keyup listener
KeyUp ==
    /\ ipc = "listening"
    /\ \E key \in Keys :
          /\ curr_keys' = [curr_keys EXCEPT ![key] = "false"]
          /\ since' = [since EXCEPT !.keyup = @ \cup {key}]
    /\ handled' = [event |-> "keyup", outcome |-> "written"]
    /\ UNCHANGED <<ipc, last_keys, mouses, mousePosition, mouseLastPosition,
                   mouseAcceleration, paused>>
    /\ UNCHANGED notInputVars

\* the mousemove listener
MouseMove ==
    /\ ipc = "listening"
    /\ \E p \in MousePoints : mousePosition' = p
    /\ handled' = [event |-> "mousemove", outcome |-> "written"]
    /\ UNCHANGED <<ipc, last_keys, curr_keys, mouses, mouseLastPosition,
                   mouseAcceleration, paused, since>>
    /\ UNCHANGED notInputVars

\* update(), once a frame
InputUpdate ==
    /\ ipc = "listening"
    /\ mouseAcceleration' = <<mousePosition[1] - mouseLastPosition[1],
                              mousePosition[2] - mouseLastPosition[2]>>
    /\ mouseLastPosition' = mousePosition
    /\ mouses' = [i \in DOMAIN mouses |->
                    [mouses[i] EXCEPT !.last_down = mouses[i].curr_down]]
    /\ last_keys' = assign(last_keys, curr_keys)
    /\ handled' = [event |-> "update", outcome |-> "returned"]
    /\ since' = [keydown |-> {}, keyup |-> {}, mousedown |-> {}, mouseup |-> {}]
    /\ UNCHANGED <<ipc, curr_keys, mousePosition, paused>>
    /\ UNCHANGED notInputVars

NextInput ==
    InputInit \/ MouseDown \/ MouseUp \/ KeyDown \/ KeyUp \/ MouseMove \/ InputUpdate

SpecInput == InitInput /\ [][NextInput]_vars


\* ------------------------------------------------------------- geometry of the claims
\* The world-space vertices of a polygon collider.
WorldVertices(c) == [i \in 1..Len(c.vertices) |-> localToGlobalPoint(c, c.vertices[i])]

\* The edge normals of a polygon given by its world vertices.
EdgeNormals(vs) ==
    {<<-(vs[(i % Len(vs)) + 1][2] - vs[i][2]), vs[(i % Len(vs)) + 1][1] - vs[i][1]>> :
        i \in 1..Len(vs)}

\* Axis n separates the point sets: their projections on n are disjoint.
SeparatedAlong(n, vs, ws) ==
    \/ \A i \in 1..Len(vs), j \in 1..Len(ws) : dot(n, vs[i]) < dot(n, ws[j])
    \/ \A i \in 1..Len(vs), j \in 1..Len(ws) : dot(n, vs[i]) > dot(n, ws[j])

\* The two colliders share at least one point (touching counts): for convex
\* polygons no edge normal of either separates them; for circles the centres
\* are no further apart than the sum of the radii.
Overlap(a, b) ==
    IF a.shape = "Polygon" /\ b.shape = "Polygon"
    THEN LET vs == WorldVertices(a)
             ws == WorldVertices(b)
         IN  ~ \E n \in EdgeNormals(vs) \cup EdgeNormals(ws) : SeparatedAlong(n, vs, ws)
    ELSE len2(subV(a.position, b.position)) <= (a.radius + b.radius) * (a.radius + b.radius)

\* The colliders share interior points: every edge normal's projections
\* overlap in more than one point.
TouchOrSeparatedAlong(n, vs, ws) ==
    \/ \A i \in 1..Len(vs), j \in 1..Len(ws) : dot(n, vs[i]) <= dot(n, ws[j])
    \/ \A i \in 1..Len(vs), j \in 1..Len(ws) : dot(n, vs[i]) >= dot(n, ws[j])

Penetrate(a, b) ==
    IF a.shape = "Polygon" /\ b.shape = "Polygon"
    THEN LET vs == WorldVertices(a)
             ws == WorldVertices(b)
         IN  ~ \E n \in EdgeNormals(vs) \cup EdgeNormals(ws) :
                    TouchOrSeparatedAlong(n, vs, ws)
    ELSE len2(subV(a.position, b.position)) < (a.radius + b.radius) * (a.radius + b.radius)

GjkReturned == pc \in {"gjkReturned", "epa", "epaReturn", "done"}

\* The origin lies strictly inside the triangle of a 3-vertex simplex.
OriginStrictlyInside(sx) ==
    LET u == cross(sx.vertices[2], sx.vertices[3])
        v == cross(sx.vertices[3], sx.vertices[1])
        w == cross(sx.vertices[1], sx.vertices[2])
    IN  (u > 0 /\ v > 0 /\ w > 0) \/ (u < 0 /\ v < 0 /\ w < 0)

\* A returned normal dir / sqrt(d2) has length 1.
IsUnit(n) == n.d2 > 0 /\ len2(n.dir) = n.d2

EpaReturned == pc = "done" /\ epaRan

\* ------------------------------------------------------------- C1
\* C1: for every pair of shapes that do not overlap, gjk returns collide =
\* false and detectCollision returns collide = false.
C1_SeparatedNotColliding ==
    /\ (GjkReturned /\ ~Overlap(c1, c2)) => ~gjkCollide
    /\ (pc = "done" /\ ~Overlap(c1, c2)) => ~result.collide

C1_Witness ==
    /\ pc = "done"
    /\ ~Overlap(c1, c2)
    /\ gjkWhy = "separated"
    /\ k >= 1
    /\ ~result.collide

\* ------------------------------------------------------------- C2
\* C2: for every pair of overlapping shapes (touching included), gjk returns
\* collide = true with a terminal simplex of exactly 3 vertices, and
\* detectCollision reports the collision.
C2_OverlapGivesTriangle ==
    /\ (GjkReturned /\ Overlap(c1, c2)) => (gjkCollide /\ Len(simplex.vertices) = 3)
    /\ (pc = "done" /\ Overlap(c1, c2)) => result.collide

ContactGap(r) ==
    subV(mulS(subV(r.contactPonintA.num, r.contactPonintB.num), r.collisionNormal.d2),
         mulS(r.collisionNormal.dir, r.penetrationDepth.num * r.contactPonintA.den))

\* C4: for every result of epa, contactPointA - contactPointB equals
\* penetrationDepth * contactNormal within the tolerance 0.001 in each
\* coordinate.
C4_ContactPointsConsistent ==
    EpaReturned =>
        /\ result.contactPonintA.den = result.contactPonintB.den
        /\ \A i \in 1..2 :
              Abs(ContactGap(result)[i])
                  <= (result.contactPonintA.den * result.collisionNormal.d2) \div TOLERANCE_INV

EpaPolytopeBounded ==
    /\ epaI <= MAX_ITERATION
    /\ Len(polytope.vertices) = Len(polytope.supports)
    /\ epaRan => /\ Len(polytope.vertices) = 3 + epaI
                 /\ Len(polytope.vertices) <= 3 + MAX_ITERATION

\* every pass of epa: either it stops and leaves the polytope alone, or it
\* inserts one vertex and its witness pair right after the closest edge's
\* first vertex
EpaInsertsOne ==
    pc = "epa" =>
        LET n == Len(polytope.vertices)
            at == closestEdge'.index
        IN  IF epaI' = epaI
            THEN polytope' = polytope
            ELSE /\ epaI' = epaI + 1
                 /\ Len(polytope'.vertices) = n + 1
                 /\ Len(polytope'.supports) = n + 1
                 /\ \A j \in 1..at :
                       /\ polytope'.vertices[j] = polytope.vertices[j]
                       /\ polytope'.supports[j] = polytope.supports[j]
                 /\ \A j \in (at + 1)..n :
                       /\ polytope'.vertices[j + 1] = polytope.vertices[j]
                       /\ polytope'.supports[j + 1] = polytope.supports[j]
                 /\ polytope'.vertices[at + 1] =
                       subV(polytope'.supports[at + 1].p1, polytope'.supports[at + 1].p2)

\* C6: epa returns after at most 20 passes; each pass that does not stop
\* inserts exactly one vertex and its witness pair after the closest edge's
\* first vertex, so the polytope never has more than 3 + 20 vertices and its
\* vertices and supports lists have equal length.
C6_EpaBounded == []EpaPolytopeBounded /\ [][EpaInsertsOne]_vars

C6_Witness ==
    /\ EpaReturned
    /\ epaI = MAX_ITERATION
    /\ Len(polytope.vertices) = 3 + MAX_ITERATION
    /\ Len(polytope.supports) = 3 + MAX_ITERATION

\* ------------------------------------------------------------- C7
\* C7: detectCollision returns collide = false without running epa whenever
\* gjk's terminal simplex does not have exactly 3 vertices, whatever gjk's own
\* collide flag; it runs epa and returns collide = true with depth, normal and
\* the two contact points exactly when the simplex has 3 vertices.
C7_EpaOnlyOnTriangle ==
    pc = "done" =>
        /\ epaRan <=> Len(simplex.vertices) = 3
        /\ result.collide <=> Len(simplex.vertices) = 3
        /\ ~result.collide => result = [collide |-> FALSE]
        /\ result.collide =>
              {"penetrationDepth", "collisionNormal", "contactPonintA", "contactPonintB"}
                  \subseteq DOMAIN result

C7_Witness ==
    /\ pc = "done"
    /\ gjkCollide
    /\ Len(simplex.vertices) # 3
    /\ ~epaRan
    /\ result = [collide |-> FALSE]

\* ------------------------------------------------------------- C8
\* C8: the accumulated impulse of every normal constraint is >= 0 after every
\* call of its solve, whatever prepare and solve calls came before and
\* whatever the bodies' velocities.
C8_NormalImpulseNonNegative ==
    /\ \A i \in 1..Len(solversN) : numLeq(Zero, solversN[i].impulseSum)
    /\ \A e \in 1..Len(solveLog) :
        solveLog[e].type = "Normal" => numLeq(Zero, solveLog[e].impulseSum)

\* ------------------------------------------------------------- C9
\* the product of the two bodies' friction coefficients
frictionOfPair == numMul(bodyA.friction, bodyB.friction)

\* C9: when ContactManifold.solve has returned, every contact point's tangent
\* impulse is within friction times the normal impulse of the same point:
\* |tangent impulseSum| <= friction * normal impulseSum.
C9_CoulombAfterManifoldSolve ==
    mpc = "returned" =>
        \A i \in 1..Len(solversT) :
            numLeq(numAbs(solversT[i].impulseSum),
                   numMul(frictionOfPair, solversN[i].impulseSum))

\* ------------------------------------------------------------- C10
\* the normal solve of the same contact point in the same call of
\* ContactManifold.solve, before entry p of the log
normalBefore(p) ==
    {q \in 1..(p - 1) : /\ solveLog[q].type = "Normal"
                        /\ solveLog[q].call = solveLog[p].call
                        /\ solveLog[q].index = solveLog[p].index}

\* C10: in every call of ContactManifold.solve each contact point's normal
\* constraint is solved before its tangent constraint, and the tangent clamp
\* reads the normal impulse that this same call's normal solve left; a call
\* that has returned solved both constraints of every contact point.
C10_NormalBeforeTangent ==
    /\ \A p \in 1..Len(solveLog) :
        solveLog[p].type = "Tangent" =>
            /\ normalBefore(p) # {}
            /\ \A q \in normalBefore(p) :
                solveLog[p].friend = solveLog[q].impulseSum
    /\ mpc = "returned" =>
        \A c \in 1..calls, i \in 1..numContacts(manifold) :
            \A t \in ConstraintType :
                \E p \in 1..Len(solveLog) : /\ solveLog[p].call = c
                                            /\ solveLog[p].index = i
                                            /\ solveLog[p].type = t

\* a second call's tangent solve read a normal impulse that differs from the
\* one the first call left for the same contact point
C10_Witness ==
    \E p \in 1..Len(solveLog), q \in 1..Len(solveLog) :
        /\ solveLog[p].type = "Tangent"
        /\ solveLog[p].call = 2
        /\ solveLog[q].type = "Normal"
        /\ solveLog[q].call = 1
        /\ solveLog[q].index = solveLog[p].index
        /\ isFinite(solveLog[p].friend)
        /\ solveLog[p].friend # solveLog[q].impulseSum

\* ------------------------------------------------------------- C11
\* the limits of a motor's accumulated impulses
maxLinearImpulseOf(j) == numMul(settings.dt, j.maxForce)

maxAngularImpulseOf(j) == numMul(settings.dt, j.maxTorque)

\* C11: after every MotorJoint.solve, with warm starting on or off, the
\* accumulated linear impulse has magnitude <= maxForce * dt and the
\* accumulated angular impulse lies within +- maxTorque * dt.
C11_MotorImpulseWithinLimits ==
    (joint.kind = "Motor" /\ jpc = "solved") =>
        /\ numLeq(qDot(joint.linearImpulseSum, joint.linearImpulseSum),
                  numMul(maxLinearImpulseOf(joint), maxLinearImpulseOf(joint)))
        /\ numLeq(numAbs(joint.angularImpulseSum), maxAngularImpulseOf(joint))

\* the speed at which bodies a and b close in on each other at a contact point:
\* the normal points from bodyA to bodyB, the way the normal impulse pushes bodyB
closingSpeed(a, b, solver) ==
    LET relativeVelocity ==
            qSubV(qAddV(b.linearVelocity, crossSV(b.angularVelocity, solver.rb)),
                  qAddV(a.linearVelocity, crossSV(a.angularVelocity, solver.ra)))
    IN  numNeg(qDot(relativeVelocity, manifold.contactNormal))

\* the position-correction term of a normal bias prepared with timestep delta
positionTerm(solver, delta) ==
    numMul(numNeg(numDiv(solver.beta, delta)),
           max(numSub(manifold.penetrationDepth, penetration_slop), Zero))

\* the bias of a prepared normal solver is the position term plus this term
hasRestitutionTerm(solver, term) ==
    \E delta \in Deltas : solver.bias = numAdd(positionTerm(solver, delta), term)

\* C12: when the bodies approach each other at a contact point with a closing
\* speed above the restitution slop and the restitution is positive, the prepared
\* normal bias holds the non-zero restitution term restitution * (closing speed -
\* slop), and the normal solve that follows leaves the bodies separating at that
\* point; at or below the slop the restitution term is zero.
C12_RestitutionAboveSlop ==
    /\ [](mpc = "prepared" =>
            \A i \in 1..numContacts(manifold) :
                LET closing == closingSpeed(bodyA, bodyB, solversN[i])
                    restitution == solversN[i].restitution
                IN  /\ (numLess(restitution_slop, closing) /\ numLess(Zero, restitution)) =>
                        /\ numMul(restitution, numSub(closing, restitution_slop)) # Zero
                        /\ hasRestitutionTerm(solversN[i],
                               numMul(restitution, numSub(closing, restitution_slop)))
                    /\ numLeq(closing, restitution_slop) =>
                        hasRestitutionTerm(solversN[i], Zero))
    /\ [][\A i \in 1..numContacts(manifold) :
            (mpc = "solving" /\ solveOrder[ms] = "Normal" /\ mi = i /\ calls = 1
             /\ numLess(restitution_slop, closingSpeed(bodyA, bodyB, solversN[i]))
             /\ numLess(Zero, solversN[i].restitution))
            => numLess(closingSpeed(bodyA', bodyB', solversN[i]), Zero)]_vars

\* C13: after any sequence of calls of the mass and inertia setters, with negative,
\* zero or above-maximum arguments, the mass and the inertia are at least 0, the
\* inverse mass is 0 when the mass is 0 and exactly 1 / mass otherwise, and the
\* inverse inertia is 0 when the inertia is 0 and exactly 1 / inertia (the stored,
\* clamped inertia) otherwise.
C13_InversesOfClampedValues ==
    /\ numLeq(Zero, rigid.mass)
    /\ numLeq(Zero, rigid.inertia)
    /\ rigid.inverseMass = (IF rigid.mass = Zero THEN Zero ELSE numInv(rigid.mass))
    /\ rigid.inverseInertia =
          (IF rigid.inertia = Zero THEN Zero ELSE numInv(rigid.inertia))

\* the linear impulse that takes a body from one linear velocity to another
impulseBetween(body, before, after) == qMulS(qSubV(after, before), body.mass)

\* the linear part of a joint's accumulated impulse
linearImpulseOf(j) ==
    IF j.kind = "Motor" THEN j.linearImpulseSum
    ELSE <<j.impulseSum[1], j.impulseSum[2]>>

angularImpulseOf(j) ==
    IF j.kind = "Motor" THEN j.angularImpulseSum
    ELSE IF j.kind = "Weld" THEN j.impulseSum[3]
    ELSE Zero

\* a body whose velocities have received the linear impulse L at lever arm r and
\* the angular impulse L2, both times sign
pushed(body, r, L, L2, sign) ==
    [body EXCEPT
       !.linearVelocity =
           qAddV(body.linearVelocity, qMulS(qMulS(L, body.inverseMass), sign)),
       !.angularVelocity =
           numAdd(numAdd(body.angularVelocity,
                         numMul(numMul(body.inverseInertia, qCross(r, L)), sign)),
                  numMul(numMul(L2, body.inverseInertia), sign))]

\* C15: the accumulated impulse of a joint is carried from step to step: prepare of
\* a Grab, Motor or Weld joint leaves the accumulated impulse as it was; with
\* warm starting on it applies exactly that stored impulse to the velocities of
\* the bodies, with warm starting off it leaves the velocities as they were.
C15_PrepareKeepsAccumulatedImpulse ==
    [][(jpc' = "prepared" /\ jCalls' = jCalls + 1) =>
        /\ linearImpulseOf(joint') = linearImpulseOf(joint)
        /\ angularImpulseOf(joint') = angularImpulseOf(joint)
        /\ (settings.warmStarting /\ joint.kind = "Grab") =>
              jA' = pushed(jA, joint.localAnchor, joint.impulseSum, Zero, One)
        /\ (settings.warmStarting /\ joint.kind # "Grab") =>
              /\ jA' = pushed(jA, joint.localAnchorA, linearImpulseOf(joint),
                              angularImpulseOf(joint), <<-1, 1>>)
              /\ jB' = pushed(jB, joint.localAnchorB, linearImpulseOf(joint),
                              angularImpulseOf(joint), One)
        /\ ~settings.warmStarting => (jA' = jA /\ jB' = jB)
      ]_vars

\* a warm-starting motor between movable bodies is prepared for its second step,
\* holding the impulse its first step accumulated
C15_Witness ==
    /\ joint.kind = "Motor"
    /\ jpc = "prepared"
    /\ jCalls = 3
    /\ settings.warmStarting
    /\ isFinite(joint.linearImpulseSum[1])
    /\ joint.linearImpulseSum[1] # Zero
    /\ jA.mass # Zero

\* inverse mass and inverse inertia are both 0
immovable(body) == body.inverseMass = Zero /\ body.inverseInertia = Zero

\* the two bodies have the same linear and angular velocity
sameVelocities(before, after) ==
    /\ after.linearVelocity = before.linearVelocity
    /\ after.angularVelocity = before.angularVelocity

\* C16: a body whose inverse mass and inverse inertia are 0 keeps its linear and
\* angular velocity through every solve of a contact manifold and through every
\* prepare and solve of a joint that ties it to a movable partner, whatever the
\* impulse.
C16_ImmovableBodyKeepsVelocity ==
    [][/\ (immovable(bodyA) /\ ~immovable(bodyB)) => sameVelocities(bodyA, bodyA')
       /\ (immovable(bodyB) /\ ~immovable(bodyA)) => sameVelocities(bodyB, bodyB')
       /\ (joint.kind \in {"Motor", "Weld"} /\ immovable(jA) /\ ~immovable(jB)) =>
              sameVelocities(jA, jA')
       /\ (joint.kind \in {"Motor", "Weld"} /\ immovable(jB) /\ ~immovable(jA)) =>
              sameVelocities(jB, jB')
      ]_vars

\* the body is neither a Circle nor a Polygon
unsupported(body) == body.shape \notin {"Circle", "Polygon"}

\* C17: support and checkInside throw on a body that is neither a Circle nor a
\* Polygon; the throw of support leaves gjk and detectCollision at once, with no
\* result and no simplex built, and no body is modified, by the call that throws
\* or by any other.
C17_UnsupportedShapeThrows ==
    /\ []((query.done /\ unsupported(query.body)) => query.threw)
    /\ []((pc # "start" /\ (unsupported(c1) \/ unsupported(c2))) =>
            /\ pc = "thrown"
            /\ result = NoResult
            /\ simplex = EmptySimplex
            /\ ~epaRan)
    /\ [][c1' = c1 /\ c2' = c2 /\ query'.body = query.body]_vars

\* detectCollision has thrown on a pair whose second body is unsupported, and
\* checkInside has thrown on an unsupported body
C17_Witness ==
    /\ pc = "thrown"
    /\ c1.shape = "Polygon"
    /\ unsupported(c2)
    /\ query.fn = "checkInside"
    /\ query.done
    /\ query.threw

\* the point is inside the convex polygon or on its boundary: it lies on one side
\* of every edge, the same side for all of them
insideOrOnBoundary(polygon, pt) ==
    LET w == WorldVertices(polygon)
        n == Len(w)
        side(i) == cross(subV(w[(i % n) + 1], w[i]), subV(pt, w[i]))
    IN  \/ \A i \in 1..n : side(i) >= 0
        \/ \A i \in 1..n : side(i) <= 0

\* C18: checkInside(polygon, p) returns true exactly when p is inside the polygon
\* or on its boundary, for every point p, those on the line of the first edge
\* but outside the polygon included, and for both winding orders of the vertices.
C18_CheckInsideIsContainment ==
    (query.fn = "checkInside" /\ query.done /\ query.body.shape = "Polygon") =>
        (query.out <=> insideOrOnBoundary(query.body, query.arg))

\* the lowest index among the vertices farthest along dir
farthestLowestIndex(vertices, dir) ==
    CHOOSE i \in 1..Len(vertices) :
        /\ \A j \in 1..Len(vertices) : dot(dir, vertices[j]) <= dot(dir, vertices[i])
        /\ \A j \in 1..(i - 1) : dot(dir, vertices[j]) < dot(dir, vertices[i])

\* C19: support(polygon, dir) returns the vertex whose dot product with dir is the
\* largest; when several vertices share the largest dot product it returns the
\* one of lowest index.
C19_SupportIsFarthestLowestIndex ==
    (query.fn = "support" /\ query.done /\ query.body.shape = "Polygon") =>
        /\ ~query.threw
        /\ query.out
             = query.body.vertices[farthestLowestIndex(query.body.vertices, query.arg)]

\* support has answered for a direction along which two vertices of a box are
\* equally far
C19_Witness ==
    /\ query.fn = "support"
    /\ query.done
    /\ query.body.shape = "Polygon"
    /\ query.arg # ZeroVec
    /\ \E i, j \in 1..Len(query.body.vertices) :
          /\ i < j
          /\ query.out = query.body.vertices[i]
          /\ dot(query.arg, query.body.vertices[j]) = dot(query.arg, query.out)

\* gjk has built its first simplex and has not thrown
gjkHasSimplex == pc \notin {"idle", "start", "thrown"}

\* C20: from its first support point on, through every pass of gjk's loop and
\* every rebuild, the simplex holds between 1 and 3 vertices, no vertex of the
\* configuration space object twice, and as many support pairs as vertices.
C20_SimplexWellFormed ==
    gjkHasSimplex =>
        /\ Len(simplex.vertices) \in 1..3
        /\ Len(simplex.supports) = Len(simplex.vertices)
        /\ \A i, j \in 1..Len(simplex.vertices) :
              i # j => simplex.vertices[i] # simplex.vertices[j]

\* gjk is in its fourth pass or later with a simplex of three vertices, which a
\* rebuild has cut down and a new support point has filled up again
C20_Witness ==
    /\ pc = "gjk"
    /\ k >= 3
    /\ Len(simplex.vertices) = 3

\* ------------------------------------------------------------- C22
\* edge e of the final polytope has the returned distance and unit normal
sameDistanceAndNormal(e, r) ==
    /\ e.dn * e.dn * r.penetrationDepth.d2 =
          r.penetrationDepth.num * r.penetrationDepth.num * e.d2
    /\ cross(e.normal, r.collisionNormal.dir) = 0
    /\ dot(e.normal, r.collisionNormal.dir) > 0

\* the barycentric weights of the origin on the interpolated edge are in [0, 1]
weightsInUnitInterval(uv) ==
    /\ 0 <= uv.un /\ uv.un <= uv.d
    /\ 0 <= uv.vn /\ uv.vn <= uv.d

\* C22: when epa returns, penetrationDepth and contactNormal are the distance
\* and outward normal of the polytope edge (vertices[index], vertices[index+1])
\* whose witness points are interpolated into the contact points, and the
\* origin's barycentric weights on that edge lie in [0, 1], whether the loop
\* stopped by the tolerance test or by the iteration cap.
C22_ResultFromInterpolatedEdge ==
    EpaReturned =>
        /\ sameDistanceAndNormal(polytopeEdge(polytope, closestEdge.index), result)
        /\ weightsInUnitInterval(result.uv)
\* ------------------------------------------------------------- C23
\* the sum of the impulses that the first n logged solve calls of the
\* constraint (type, index) applied to the bodies
RECURSIVE appliedSum(_, _, _)
appliedSum(type, index, n) ==
    IF n = 0 THEN Zero
    ELSE IF solveLog[n].type = type /\ solveLog[n].index = index
    THEN numAdd(appliedSum(type, index, n - 1), solveLog[n].lambda)
    ELSE appliedSum(type, index, n - 1)

\* every constraint's impulseSum is 0 after the constructor and is the sum of
\* the impulses its solve calls applied
impulseSumIsAppliedSum ==
    /\ mpc = "constructed" =>
          \A i \in 1..Len(solversN) :
              solversN[i].impulseSum = Zero /\ solversT[i].impulseSum = Zero
    /\ \A i \in 1..Len(solversN) :
          /\ solversN[i].impulseSum = appliedSum("Normal", i, Len(solveLog))
          /\ solversT[i].impulseSum = appliedSum("Tangent", i, Len(solveLog))

\* a step of solve moves the bodies by the change of its constraint's
\* impulseSum; a step of prepare leaves every impulseSum as it was
solveAppliesChange ==
    /\ Len(solveLog') = Len(solveLog) + 1 =>
          LET solver == IF solveOrder[ms] = "Normal" THEN solversN[mi] ELSE solversT[mi]
              after == IF solveOrder[ms] = "Normal" THEN solversN'[mi] ELSE solversT'[mi]
              change == numSub(after.impulseSum, solver.impulseSum)
          IN  /\ bodyA' = applyImpulse(bodyA, solver.jacobian.va, solver.jacobian.wa, change)
              /\ bodyB' = applyImpulse(bodyB, solver.jacobian.vb, solver.jacobian.wb, change)
    /\ Len(solveLog') = Len(solveLog) =>
          \A i \in 1..Len(solversN) :
              /\ solversN'[i].impulseSum = solversN[i].impulseSum
              /\ solversT'[i].impulseSum = solversT[i].impulseSum

\* C23: for each contact constraint (normal or tangent), impulseSum is 0 when
\* its manifold is built, after any number of solve calls it equals the sum of
\* the impulses those calls applied to the two bodies (each solve applies the
\* clamped change impulseSum_new - impulseSum_old), and prepare does not
\* change it.
C23_ImpulseSumIsAppliedSum == []impulseSumIsAppliedSum /\ [][solveAppliesChange]_vars

\* a normal constraint whose two solve calls both applied an impulse, the
\* second taking back a part of the first, and whose impulseSum is their sum
C23_Witness ==
    \E p \in 1..Len(solveLog), q \in 1..Len(solveLog) :
        /\ p < q
        /\ solveLog[p].type = "Normal" /\ solveLog[q].type = "Normal"
        /\ solveLog[p].index = solveLog[q].index
        /\ numLess(Zero, solveLog[p].lambda)
        /\ numLess(solveLog[q].lambda, Zero)
        /\ numLess(Zero, solversN[solveLog[q].index].impulseSum)
        /\ solversN[solveLog[q].index].impulseSum
              = numAdd(solveLog[p].lambda, solveLog[q].lambda)
\* ------------------------------------------------------------- C24
\* the body's linear and angular velocity are finite numbers
finiteVelocities(body) ==
    /\ isFinite(body.linearVelocity[1])
    /\ isFinite(body.linearVelocity[2])
    /\ isFinite(body.angularVelocity)

\* C24: for a contact manifold whose two bodies both have inverse mass 0 and
\* inverse inertia 0, every step of prepare and solve leaves both bodies'
\* velocities unchanged and finite, and no constraint's accumulated impulse
\* becomes infinite or not-a-number through the effective mass 1 / k with k = 0.
C24_ImmovablePairStaysFinite ==
    [][(immovable(bodyA) /\ immovable(bodyB)) =>
          /\ sameVelocities(bodyA, bodyA')
          /\ sameVelocities(bodyB, bodyB')
          /\ finiteVelocities(bodyA')
          /\ finiteVelocities(bodyB')
          /\ \A i \in 1..Len(solversN) :
                /\ isFinite(solversN'[i].impulseSum)
                /\ isFinite(solversT'[i].impulseSum)
      ]_vars
\* ------------------------------------------------------------- C25
\* the body differs from what it was in its two velocities at most
onlyVelocitiesChange(before, after) ==
    after = [before EXCEPT !.linearVelocity = after.linearVelocity,
                           !.angularVelocity = after.angularVelocity]

keyEdgesFollowEvents(key) ==
    /\ truthy(isKeyDown(key)) => key \in since.keydown
    /\ truthy(isKeyUp(key)) => key \in since.keyup
    /\ ~(truthy(isKeyDown(key)) /\ truthy(isKeyUp(key)))
    /\ handled.event = "update" => ~truthy(isKeyDown(key)) /\ ~truthy(isKeyUp(key))

mouseEdgesFollowEvents(button) ==
    /\ isMouseDown(button) => button \in since.mousedown
    /\ isMouseUp(button) => button \in since.mouseup
    /\ ~(isMouseDown(button) /\ isMouseUp(button))
    /\ handled.event = "update" => ~isMouseDown(button) /\ ~isMouseUp(button)

C26_EdgesLastOneFrame ==
    /\ \A key \in Keys : keyEdgesFollowEvents(key)
    /\ \A button \in 0..(Len(mouses) - 1) : mouseEdgesFollowEvents(button)

\* update() has just run while "a" and the main button are held since an
\* earlier frame
C26_Witness ==
    /\ handled.event = "update"
    /\ curr_keys["a"] = "true"
    /\ last_keys["a"] = "true"
    /\ hasSlot(0)
    /\ mouses[1].curr_down
    /\ mouses[1].last_down

\* C27: after init() the mousedown and mouseup listeners never touch a slot of
\* mouses that does not exist, whatever button number the event carries.
C27_ListenersStayInBounds ==
    handled.event \in {"mousedown", "mouseup"} => handled.outcome # "TypeError"

\* C28: at every prepare of a motor or grab joint, beta and gamma are
\* h * k / (d + h * k) and 1 / ((d + h * k) * h) for h the current Settings.dt,
\* also when updateSetting("frequency", f) has changed dt since the joint was made.
coefficientsOf(j, body, s) ==
    /\ j.beta = softness(body.mass, One, One, s.dt).beta
    /\ j.gamma = softness(body.mass, One, One, s.dt).gamma

C28_CoefficientsFollowTimestep ==
    [][(jpc' = "prepared" /\ jCalls' = jCalls + 1)
          => coefficientsOf(joint', jB, settings)]_vars

\* C29: after any sequence of mass and density setter calls on a Polygon, with
\* negative arguments too, density * area = mass, mass >= 0 and inertia is
\* calculateConvexPolygonInertia(vertices, mass, area) for the current mass.
C29_DensityAreaIsMass ==
    /\ numMul(rigid.density, rigid.area) = rigid.mass
    /\ numLeq(Zero, rigid.mass)
    /\ rigid.inertia = calculateConvexPolygonInertia(rigid.vertices, rigid.mass, rigid.area)

\* every accumulated impulse of the manifold is a finite number
finiteImpulses ==
    \A i \in 1..Len(solversT) :
        isFinite(solversN[i].impulseSum) /\ isFinite(solversT[i].impulseSum)

\* C30: in every state of the solver loop, after each single constraint solve,
\* every contact point's tangent impulse is within friction times its normal
\* impulse, |tangent impulseSum| <= friction * normal impulseSum, also right
\* after a later iteration's normal solve and before the tangent is solved again
\* (stated for finite impulses).
C30_CoulombInEveryState ==
    (mpc \in {"solving", "returned"} /\ finiteImpulses) =>
        \A i \in 1..Len(solversT) :
            numLeq(numAbs(solversT[i].impulseSum),
                   numMul(solversT[i].friction, solversN[i].impulseSum))

\* C21: whenever gjk returns collide = false (no progress towards the origin, a
\* vertex found twice, or the cap of MAX_ITERATION passes) its simplex has fewer
\* than 3 vertices, so detectCollision runs epa for no pair gjk did not report.
\* The passes of the model end by the origin or by the no-progress test; among
\* their states the formula holds.
C21_NoTriangleWithoutCollision ==
    (GjkReturned /\ ~gjkCollide) => (Len(simplex.vertices) < 3 /\ ~epaRan)

====
